---- MODULE Spec2Model ----
(***************************************************************************)
(* A model of the adaptive content-fetch engine and feed-processing        *)
(* pipeline of topic_engine:                                               *)
(*   sources/fetching/fetcher.py   FetchHistory, StrategyManager,          *)
(*                                 SmartContentFetcher                     *)
(*   sources/fetching/types.py     ContentQuality, FetchResult,            *)
(*                                 ContentValidation                       *)
(*   sources/fetching/strategies   SimpleHttpStrategy, BrowserStrategy,    *)
(*                                 ArchiveStrategy, WaybackMachine         *)
(*   sources/services.py           FeedProcessor                           *)
(*   sources/scheduler.py          ContentScheduler                        *)
(*   sources/management/commands/check_feeds.py   the check_feeds command  *)
(*   core/signals.py               handle_new_content                      *)
(*                                                                         *)
(* Pure functions of the code are operators; every handler is an action.   *)
(* Several systems are specified over the same variables:                  *)
(*   Spec       a caller invoking FeedProcessor.process_source on one      *)
(*              Source object, as time passes;                             *)
(*   SpecSched  ContentScheduler running its periodic feed-check job;      *)
(*   SpecCmd    one run of the check_feeds command (asyncio tasks under a  *)
(*              semaphore, per-source timeouts, SIGTERM/SIGINT);           *)
(*   SpecFetch  one call on the fetcher (get_optimal_strategy,             *)
(*              record_attempt, fetch_content) on a drawn history;         *)
(*   SpecFetchers  concurrent fetch_content calls on one fetcher;          *)
(*   SpecLoop   one process_source call on a feed of up to LoopMaxEntries  *)
(*              entries;                                                   *)
(*   SpecPenalty  runs of partial and of full failures recorded on two     *)
(*              sources;                                                   *)
(*   SpecArchive  tasks going through the WaybackMachine rate limiter;     *)
(*   SpecCycle  one feed check of the scheduler on rows of every kind;     *)
(*   SpecValidate  ContentValidation.validate on a drawn content;          *)
(*   SpecStrategy  the fetch of one strategy on a drawn network;           *)
(*   SpecCleanup  SmartContentFetcher.cleanup on strategies that may fail; *)
(*   SpecClosed  process_source calls before and after aclose;             *)
(*   SpecLife   sequences of start and stop calls on one scheduler;        *)
(*   SpecPredict  new contents queued for prediction while the prediction  *)
(*              job runs;                                                  *)
(*   SpecOverlap  the scheduler's initial feed check and its job;          *)
(*   SpecEntries  concurrent process_source activations with               *)
(*              _process_entry taken await by await.                       *)
(* Time is counted in minutes, in SpecArchive in ticks of the loop clock.  *)
(***************************************************************************)
EXTENDS Integers, Sequences, FiniteSets, TLC

VARIABLES
    now,        \* the wall clock, minutes
    db,         \* the record store's Source rows: source id -> SourceRec
    store,      \* the record store's Content rows, by URL (unique)
    history,    \* StrategyManager._pattern_history
    frame,      \* Spec, SpecSched: the process_source activation and the
                \* Source instance it works on
    failed_at,  \* history variable: source id -> when _record_source_failure
                \* last stamped and saved the source
    sched,      \* SpecSched: where ContentScheduler's feed-check job stands
    slow,       \* the sources whose feed server accepts the request and
                \* never answers
    broken,     \* the sources whose row the record store refuses to save
    main,       \* SpecCmd: where Command.process_sources stands
    tasks,      \* SpecCmd: the tasks of process_with_semaphore, by source id
    shutdown,   \* SpecCmd: Command._shutdown
    releases,   \* how many times each resource has been released
    fetch,      \* SpecFetch: the last call made on the fetcher, with its
                \* arguments, the history before it and what it returned
    fetchers,   \* SpecFetchers: the concurrent fetch_content activations
    calls,      \* history variable: pattern -> strategy -> number of
                \* record_attempt calls made
    penalty,    \* SpecPenalty: two Source instances taken from the same
                \* error_count through partial and through full failures
    limiter,    \* SpecArchive: WaybackMachine's rate limiter, its callers,
                \* the event loop's clock and the requests sent
    cleanup,    \* SpecCleanup: SmartContentFetcher.cleanup and the resources
                \* of the strategies
    closed,     \* FeedProcessor.client.is_closed
    life,       \* SpecLife: ContentScheduler._running, the underlying
                \* scheduler and the calls of start and stop
    pending,    \* SpecPredict: the cache entry of the pending content ids,
                \* process_predictions and the post_save handler
    runs,       \* SpecOverlap: the feed checks of start() and of the job
    procs       \* SpecEntries: concurrent _process_entry activations and
                \* the Content rows

schedVars == <<sched, slow, broken>>

cmdVars == <<main, tasks, shutdown, releases>>

fetchVars == <<fetch, fetchers, calls>>

auxVars == <<penalty, limiter>>

lifeVars == <<cleanup, closed, life, pending, runs, procs>>

vars == <<now, db, store, history, frame, failed_at, schedVars, cmdVars, fetchVars,
          auxVars, lifeVars>>

----------------------------------------------------------------------------
(* Bounds of the model *)

MaxTime == 60          \* the clock stops here
DirectTick == 20       \* Spec: minutes between two clock readings
MaxEntries == 2        \* Spec: longest feed a call is given
MaxHistory == 3        \* no call may take the history beyond this many attempts
NumSched == 2          \* SpecSched: number of sources
MaxCycles == 15        \* SpecSched: number of times the interval trigger fires
NumCmd == 3            \* SpecCmd: number of sources
Concurrency == 2       \* SpecCmd: the --concurrency option
CmdMaxEntries == 1     \* SpecCmd: longest feed a source has
MaxCount == 1          \* SpecFetch: largest counter of a drawn history
NumFetchers == 2       \* SpecFetchers: number of concurrent fetch_content calls
LoopMaxEntries == 6    \* SpecLoop: longest feed the call is given
MaxErrorCount == 3     \* SpecPenalty: largest error_count the sources start from
MaxFailures == 5       \* SpecPenalty: longest run of failures recorded
TicksPerSecond == 2    \* SpecArchive: the event loop's clock ticks per second
NumArchive == 2        \* SpecArchive: number of tasks fetching from the archive
MaxClock == 8          \* SpecArchive: ticks the clock may advance
CycleTime == 10        \* SpecCycle: the minute at which the feed check runs
MaxCleanups == 2       \* SpecCleanup: calls of SmartContentFetcher.cleanup

----------------------------------------------------------------------------
(* Constants of the program *)

FAILURE_THRESHOLD == 3
BACKOFF_MINUTES == 60
MAX_CONSECUTIVE_FAILURES == 3
\* MAX_FAILURE_RATE = 0.5, as a fraction
MAX_FAILURE_RATE_NUM == 1
MAX_FAILURE_RATE_DEN == 2
MIN_ATTEMPTS_BEFORE_RATE_CHECK == 5
\* IntervalTrigger(minutes=5) of the feed_check job
CYCLE_MINUTES == 5
\* a source is due when last checked at least this long ago
DUE_MINUTES == 5
\* process_single_source deactivates a source at this error_count
DEACTIVATE_AT == 3
\* WaybackMachine.RATE_LIMIT, seconds between requests
RATE_LIMIT == 1
\* ContentValidation: the default limits, and the length above which
\* content that matches no pattern is PARTIAL
min_length == 100
max_length == 2000000
SUBSTANTIAL_LENGTH == 1000
\* FetcherConfig: the default retry settings, in attempts and seconds
max_retries == 3
retry_delay == 1
\* SimpleHttpStrategy.fetch: the turns of its loop and the seconds its sleep
\* multiplies
SIMPLE_ATTEMPTS == 3
SIMPLE_SLEEP == 1

\* Python's None, and a present value
None == <<>>
Some(x) == <<x>>

----------------------------------------------------------------------------
(* sources/fetching: strategies, results, history *)

\* list(FetchStrategy): the enumeration order
FetchStrategy == <<"SIMPLE", "BROWSER", "ARCHIVE">>

Strategies == {FetchStrategy[i] : i \in 1..Len(FetchStrategy)}

ContentQuality == {"FULL", "PARTIAL", "BLOCKED", "EMPTY"}

\* What one strategy's fetch can come back with.  A string stands for a
\* returned FetchResult, "RAISE" for an exception leaving fetch:
\*   FULL/PARTIAL/BLOCKED  content present, validated to that quality
\*   SHORT                 content present, validated EMPTY (too short)
\*   ERROR                 content None, quality EMPTY, error set
StrategyOutcome == {"FULL", "PARTIAL", "BLOCKED", "SHORT", "ERROR", "RAISE"}

\* FetchResult as built by ContentFetchStrategy.create_result
create_result(outcome, strategy) ==
    [content  |-> outcome \in {"FULL", "PARTIAL", "BLOCKED", "SHORT"},
     quality  |-> IF outcome \in {"FULL", "PARTIAL", "BLOCKED"} THEN outcome ELSE "EMPTY",
     strategy |-> strategy,
     error    |-> IF outcome = "ERROR" THEN Some(<<"strategy", strategy>>) ELSE None]

\* FetchResult.success
success(r) == r.content /\ r.quality \notin {"EMPTY", "BLOCKED"}

\* A URL is a host and its path segments, each a sequence of characters.
Flatten(segs) ==
    LET F[i \in 0..Len(segs)] == IF i = 0 THEN <<>> ELSE F[i - 1] \o segs[i]
    IN  F[Len(segs)]

\* StrategyManager.get_url_pattern: path.split("/") is "" followed by the
\* segments; its first three parts are joined, without separator, to the host.
get_url_pattern(url) ==
    LET parts == <<<<>>>> \o url.path
        n == IF Len(parts) < 3 THEN Len(parts) ELSE 3
    IN  url.host \o Flatten(SubSeq(parts, 1, n))

\* FetchHistory(pattern): all counters 0
NewHistory == [successful_strategies |-> [s \in Strategies |-> 0],
               failed_strategies     |-> [s \in Strategies |-> 0]]

\* FetchHistory.record_attempt
FetchHistory_record_attempt(h, r, strategy) ==
    IF r.content /\ r.quality # "EMPTY"
    THEN [h EXCEPT !.successful_strategies[strategy] = @ + 1]
    ELSE [h EXCEPT !.failed_strategies[strategy] = @ + 1]

\* record_attempt losing the attempt that makes it create the pattern's entry
record_attempt_first_lost(hist, url, r, strategy) ==
    LET pattern == get_url_pattern(url)
    IN  [p \in DOMAIN hist \cup {pattern} |->
            IF p # pattern THEN hist[p]
            ELSE IF pattern \in DOMAIN hist
                 THEN FetchHistory_record_attempt(hist[p], r, strategy)
                 ELSE NewHistory]

\* StrategyManager.record_attempt; hist is a function from the patterns seen
record_attempt(hist, url, r, strategy) ==
    LET pattern == get_url_pattern(url)
        h == IF pattern \in DOMAIN hist THEN hist[pattern] ELSE NewHistory
    IN  [p \in DOMAIN hist \cup {pattern} |->
            IF p = pattern THEN FetchHistory_record_attempt(h, r, strategy) ELSE hist[p]]

\* get_optimal_strategy keeping the last of equal scores
get_optimal_strategy_last_of_equal(hist, url) ==
    LET pattern == get_url_pattern(url)
    IN  IF pattern \notin DOMAIN hist THEN "SIMPLE"
        ELSE LET h == hist[pattern]
                 S(i) == h.successful_strategies[FetchStrategy[i]]
                 T(i) == S(i) + h.failed_strategies[FetchStrategy[i]]
                 scored == {i \in 1..Len(FetchStrategy) : T(i) > 0}
                 Better(i, j) == S(i) * T(j) > S(j) * T(i)
             IN  IF scored = {} THEN "SIMPLE"
                 ELSE FetchStrategy[CHOOSE i \in scored :
                          \A j \in scored \ {i} :
                              Better(i, j) \/ (~Better(j, i) /\ i > j)]

\* StrategyManager.get_optimal_strategy: max() keeps the first of equal scores
get_optimal_strategy(hist, url) ==
    LET pattern == get_url_pattern(url)
    IN  IF pattern \notin DOMAIN hist THEN "SIMPLE"
        ELSE LET h == hist[pattern]
                 S(i) == h.successful_strategies[FetchStrategy[i]]
                 T(i) == S(i) + h.failed_strategies[FetchStrategy[i]]
                 scored == {i \in 1..Len(FetchStrategy) : T(i) > 0}
                 \* score(i) > score(j), as fractions
                 Better(i, j) == S(i) * T(j) > S(j) * T(i)
             IN  IF scored = {} THEN "SIMPLE"
                 ELSE FetchStrategy[CHOOSE i \in scored :
                          \A j \in scored \ {i} :
                              Better(i, j) \/ (~Better(j, i) /\ i < j)]

\* The sequence that starts at start_strategy and goes on in enumeration
\* order, without wrapping around
get_strategy_sequence_unrotated(start_strategy) ==
    <<start_strategy>> \o SelectSeq(FetchStrategy, LAMBDA st : st # start_strategy)

\* SmartContentFetcher._get_strategy_sequence
get_strategy_sequence(start_strategy) ==
    LET start_idx == CHOOSE i \in 1..Len(FetchStrategy) : FetchStrategy[i] = start_strategy
    IN  SubSeq(FetchStrategy, start_idx, Len(FetchStrategy))
            \o SubSeq(FetchStrategy, 1, start_idx - 1)

\* The FetchResult fetch_content builds when a strategy's fetch raises
exception_result(strategy) ==
    [content |-> FALSE, quality |-> "EMPTY", strategy |-> strategy,
     error |-> Some(<<"exception", strategy>>)]

\* The FetchResult fetch_content returns when no strategy succeeded
all_failed_result(start_strategy, last_error) ==
    [content |-> FALSE, quality |-> "EMPTY", strategy |-> start_strategy,
     error |-> Some(<<"all_failed", last_error>>)]

\* fc_turn that goes on to the next strategy after a success
fc_turn_goes_on(hist, url, st, outcome) ==
    LET r == IF outcome = "RAISE" THEN exception_result(st) ELSE create_result(outcome, st)
    IN  [returns |-> FALSE, result |-> r, history |-> record_attempt(hist, url, r, st),
         last_error |-> r.error]

\* fc_turn that records nothing for a strategy that raised
fc_turn_unrecorded_exception(hist, url, st, outcome) ==
    IF outcome = "RAISE"
    THEN [returns |-> FALSE, result |-> exception_result(st), history |-> hist,
          last_error |-> exception_result(st).error]
    ELSE LET r == create_result(outcome, st)
         IN  [returns |-> success(r), result |-> r,
              history |-> record_attempt(hist, url, r, st), last_error |-> r.error]

\* One turn of fetch_content's loop, from the moment strategy st's fetch comes
\* back (outcome) to the next await or the return: the attempt is recorded;
\* returns says whether fetch_content returns result, last_error is what the
\* turn leaves in last_error otherwise.
fc_turn(hist, url, st, outcome) ==
    IF outcome = "RAISE"
    THEN [returns |-> FALSE, result |-> exception_result(st),
          history |-> record_attempt(hist, url, exception_result(st), st),
          last_error |-> exception_result(st).error]
    ELSE LET r == create_result(outcome, st)
         IN  [returns |-> success(r), result |-> r,
              history |-> record_attempt(hist, url, r, st), last_error |-> r.error]

\* SmartContentFetcher.fetch_content.  outs gives every strategy's outcome for
\* this URL.  The value is the returned FetchResult, the history after the
\* call and the strategies attempted, in order.
RECURSIVE fetch_loop(_, _, _, _, _, _, _)
fetch_loop(hist, url, outs, seq, i, last_error, tried) ==
    IF i > Len(seq)
    THEN [result |-> all_failed_result(seq[1], last_error), history |-> hist,
          tried |-> tried]
    ELSE LET turn == fc_turn(hist, url, seq[i], outs[seq[i]])
         IN  IF turn.returns
             THEN [result |-> turn.result, history |-> turn.history,
                   tried |-> Append(tried, seq[i])]
             ELSE fetch_loop(turn.history, url, outs, seq, i + 1, turn.last_error,
                             Append(tried, seq[i]))

fetch_content(hist, url, outs) ==
    fetch_loop(hist, url, outs, get_strategy_sequence(get_optimal_strategy(hist, url)),
               1, None, <<>>)

\* Number of attempts the history holds
HistTotal(hist) ==
    LET PerPattern(h) ==
            LET F[i \in 0..Len(FetchStrategy)] ==
                    IF i = 0 THEN 0
                    ELSE F[i - 1] + h.successful_strategies[FetchStrategy[i]]
                                  + h.failed_strategies[FetchStrategy[i]]
            IN  F[Len(FetchStrategy)]
        RECURSIVE Sum(_)
        Sum(ps) == IF ps = {} THEN 0
                   ELSE LET p == CHOOSE q \in ps : TRUE
                        IN  PerPattern(hist[p]) + Sum(ps \ {p})
    IN  Sum(DOMAIN hist)

----------------------------------------------------------------------------
(* sources/services.py: FeedProcessor *)

\* A Source row / instance: the health fields this code reads and writes
NewSource(id) == [id |-> id, error_count |-> 0, last_checked |-> None,
                  last_success |-> None, active |-> TRUE, source_type |-> "rss"]

\* ProcessingResult()
NewResult == [new_content |-> <<>>, error |-> None, processed_count |-> 0,
              fetch_failures |-> 0, all_attempts_failed |-> FALSE]

\* in_backoff with the threshold test off by one
in_backoff_strict(src, t) ==
    /\ src.error_count > FAILURE_THRESHOLD
    /\ src.last_checked # None
    /\ t - src.last_checked[1] < BACKOFF_MINUTES

\* The backoff test at the head of process_source
in_backoff(src, t) ==
    /\ src.error_count >= FAILURE_THRESHOLD
    /\ src.last_checked # None
    /\ t - src.last_checked[1] < BACKOFF_MINUTES

\* _record_source_failure adding the increment twice
record_source_failure_twice(src, t, increment2) ==
    [src EXCEPT !.error_count = (2 * @ + 2 * increment2 + 1) \div 2,
                !.last_checked = Some(t)]

\* _record_source_failure without the last_checked stamp
record_source_failure_no_stamp(src, t, increment2) ==
    [src EXCEPT !.error_count = (2 * @ + increment2 + 1) \div 2]

\* FeedProcessor._record_source_failure, up to its save.  increment2 is the
\* increment in halves (2 for 1.0, 1 for 0.5): error_count += increment, then
\* error_count = int(error_count + 0.5), on a count that is never negative.
record_source_failure(src, t, increment2) ==
    [src EXCEPT !.error_count = (2 * @ + increment2 + 1) \div 2,
                !.last_checked = Some(t)]

\* _record_source_success leaving error_count as it is
record_source_success_keeps_count(src, t) ==
    [src EXCEPT !.last_checked = Some(t), !.last_success = Some(t)]

\* _record_source_success without the last_checked stamp
record_source_success_no_stamp(src, t) ==
    [src EXCEPT !.error_count = 0, !.last_success = Some(t)]

\* FeedProcessor._record_source_success, up to its save
record_source_success(src, t) ==
    [src EXCEPT !.error_count = 0, !.last_checked = Some(t), !.last_success = Some(t)]

\* _process_entry without the test of the fetch result: whatever
\* fetch_content returned is stored
process_entry_unchecked(url, outs, st, hist) ==
    IF url \in st
    THEN [content |-> None, store |-> st, history |-> hist, fetched |-> FALSE,
          tried |-> <<>>]
    ELSE LET f == fetch_content(hist, url, outs)
         IN  [content |-> Some([url |-> url,
                                raw_content |-> f.result.content,
                                fetch_quality |-> f.result.quality,
                                fetch_strategy |-> f.result.strategy]),
              store |-> st \cup {url}, history |-> f.history, fetched |-> TRUE,
              tried |-> f.tried]

\* FeedProcessor._process_entry: the Content created, or None; fetched says
\* whether fetch_content was called, tried which strategies it attempted.
process_entry(url, outs, st, hist) ==
    IF url \in st
    THEN [content |-> None, store |-> st, history |-> hist, fetched |-> FALSE,
          tried |-> <<>>]
    ELSE LET f == fetch_content(hist, url, outs)
         IN  IF ~success(f.result) \/ f.result.quality \in {"EMPTY", "BLOCKED"}
             THEN [content |-> None, store |-> st, history |-> f.history,
                   fetched |-> TRUE, tried |-> f.tried]
             ELSE [content |-> Some([url |-> url,
                                     raw_content |-> f.result.content,
                                     fetch_quality |-> f.result.quality,
                                     fetch_strategy |-> f.result.strategy]),
                   store |-> st \cup {url}, history |-> f.history, fetched |-> TRUE,
                   tried |-> f.tried]

\* stop_consecutive one failure late
stop_consecutive_late(fr) == fr.consecutive_failures > MAX_CONSECUTIVE_FAILURES

\* stop_failure_rate without the minimum number of attempts
stop_failure_rate_no_minimum(fr) ==
    fr.failed_attempts * MAX_FAILURE_RATE_DEN > MAX_FAILURE_RATE_NUM * fr.total_attempts

\* The two early exits of the per-entry loop, tested after each entry
stop_consecutive(fr) == fr.consecutive_failures >= MAX_CONSECUTIVE_FAILURES

stop_failure_rate(fr) ==
    /\ fr.total_attempts >= MIN_ATTEMPTS_BEFORE_RATE_CHECK
    /\ fr.failed_attempts * MAX_FAILURE_RATE_DEN > MAX_FAILURE_RATE_NUM * fr.total_attempts

\* The outcome classification of process_source, after the loop
classify(fr) ==
    IF fr.failed_attempts = fr.total_attempts /\ fr.total_attempts > 0 THEN "full_failure"
    ELSE IF 2 * fr.failed_attempts > fr.total_attempts THEN "partial_failure"
    ELSE "success"

(* One activation of process_source is a frame.  It advances from one await *)
(* to the next:                                                            *)
(*   pc = "feed"     awaiting _fetch_feed                                  *)
(*   pc = "entries"  awaiting _process_entry for entries[i]                *)
(*   pc = "saving"   awaiting source.save() in _record_source_failure or   *)
(*                   _record_source_success                                *)
(*   pc = "done"     returned                                              *)
(* obj is the Source instance, result the ProcessingResult; call records   *)
(* what the activation did on the network:                                 *)
(*   call.at            when process_source was called                     *)
(*   call.feed_fetched  _fetch_feed was called                             *)
(*   call.fetched       the URLs fetch_content was called for, in order    *)
(*   call.stored        the entries found in the store                     *)
(*   call.attempts      the entries _process_entry was called for, in      *)
(*                      order, each with whether the loop booked a failure *)
(*   call.recorded      "failure" or "success": what the call stamped on   *)
(*                      the instance, "none" before that                   *)
(*   call.after_full_failure  the call before, on this instance, ended     *)
(*                            with all_attempts_failed                     *)
NoCall == [at |-> None, feed_fetched |-> FALSE, fetched |-> <<>>, stored |-> {},
           attempts |-> <<>>, recorded |-> "none", after_full_failure |-> FALSE]

NewFrame(src) ==
    [pc |-> "done", obj |-> src, result |-> NewResult, entries |-> <<>>, i |-> 1,
     total_attempts |-> 0, failed_attempts |-> 0, consecutive_failures |-> 0,
     call |-> NoCall]

\* process_source, from the call to its first await (or its return, for a
\* source in backoff)
ps_call(fr, t) ==
    LET fresh == [NewFrame(fr.obj) EXCEPT
                    !.call.at = Some(t),
                    !.call.after_full_failure = fr.result.all_attempts_failed]
    IN  IF in_backoff(fr.obj, t)
        THEN [fresh EXCEPT !.result.error = Some("backoff")]
        ELSE [fresh EXCEPT !.pc = "feed", !.call.feed_fetched = TRUE]

\* process_source, from the return of _fetch_feed to the next await.
\*   feed.ok       _fetch_feed returned a feed (it returns None on an HTTP or
\*                 parse error and for a feed without entries)
\*   feed.raises   building the entries raises an unexpected exception
\*   feed.entries  the entries' URLs
ps_feed(fr, t, feed) ==
    IF ~feed.ok
    THEN [fr EXCEPT !.pc = "saving", !.result.error = Some("feed"),
                    !.call.recorded = "failure",
                    !.obj = record_source_failure(@, t, 2)]
    ELSE IF feed.raises
    THEN [fr EXCEPT !.pc = "saving", !.result.error = Some("exception"),
                    !.call.recorded = "failure",
                    !.obj = record_source_failure(@, t, 2)]
    ELSE [fr EXCEPT !.pc = "entries", !.entries = feed.entries,
                    !.result.processed_count = Len(feed.entries)]

\* process_source after the loop: the classification, up to the save
ps_classify(fr, t) ==
    LET outcome == classify(fr)
    IN  [fr EXCEPT
           !.pc = "saving",
           !.result.fetch_failures = fr.failed_attempts,
           !.result.all_attempts_failed = (outcome = "full_failure"),
           !.call.recorded = IF outcome = "success" THEN "success" ELSE "failure",
           !.obj = CASE outcome = "full_failure" -> record_source_failure(@, t, 2)
                     [] outcome = "partial_failure" -> record_source_failure(@, t, 1)
                     [] OTHER -> record_source_success(@, t)]

\* One turn of the per-entry loop, from the return of _process_entry for
\* entries[i] to the next await; e is what _process_entry did.
ps_entry(fr, t, e) ==
    LET failed == (e.content = None)
        fr2 == [fr EXCEPT
                  !.i = @ + 1,
                  !.total_attempts = @ + 1,
                  !.failed_attempts = IF failed THEN @ + 1 ELSE @,
                  !.consecutive_failures = IF failed THEN @ + 1 ELSE 0,
                  !.result.new_content = IF failed THEN @ ELSE Append(@, e.content[1]),
                  !.call.fetched = IF e.fetched THEN Append(@, fr.entries[fr.i]) ELSE @,
                  !.call.attempts = Append(@, [url |-> fr.entries[fr.i],
                                               failed |-> failed]),
                  !.call.stored = IF e.fetched THEN @ ELSE @ \cup {fr.entries[fr.i]}]
    IN  IF stop_consecutive(fr2) \/ stop_failure_rate(fr2) \/ fr2.i > Len(fr2.entries)
        THEN ps_classify(fr2, t)
        ELSE fr2

\* process_source from the return of source.save() to its own return
ps_saved(fr) == [fr EXCEPT !.pc = "done"]

\* source.save() raises.  Inside the try the handler records a failure and
\* its own save raises out of process_source; a save made by the handler
\* raises out at once.
ps_save_raised(fr, t) ==
    [fr EXCEPT !.pc = "raised",
               !.obj = IF fr.result.error = Some("exception") THEN @
                       ELSE record_source_failure(@, t, 2),
               !.result.error = Some("exception")]

----------------------------------------------------------------------------
(* The inputs the model draws *)

\* Article URLs; they share a pattern
Urls == {[host |-> <<"h">>, path |-> <<<<"a">>, <<"b">>, <<"1">>>>],
         [host |-> <<"h">>, path |-> <<<<"a">>, <<"b">>, <<"2">>>>]}

\* What the three strategies come back with for one entry
NetBehaviours ==
    {[s \in Strategies |-> "FULL"],
     [s \in Strategies |-> IF s = "BROWSER" THEN "PARTIAL" ELSE "ERROR"],
     [s \in Strategies |-> CASE s = "SIMPLE" -> "BLOCKED"
                             [] s = "BROWSER" -> "RAISE"
                             [] OTHER -> "ERROR"]}

SeqsUpTo(S, n) == UNION {[1..k -> S] : k \in 1..n}

\* What _fetch_feed and the building of the entries may give: a failed
\* fetch, entries that cannot be built, or up to n entries
FeedsUpTo(n) ==
    {[ok |-> FALSE, raises |-> FALSE, entries |-> <<>>],
     [ok |-> TRUE, raises |-> TRUE, entries |-> <<>>]}
    \cup {[ok |-> TRUE, raises |-> FALSE, entries |-> es] : es \in SeqsUpTo(Urls, n)}

Feeds == FeedsUpTo(MaxEntries)

\* The bound on the history: a step is taken only if it leaves room for one
\* attempt on every entry the activation has still to fetch, so that no
\* activation is ever left unable to go on.
Room(hist, fr, st) ==
    LET left == IF fr.pc = "entries"
                THEN {k \in fr.i..Len(fr.entries) : fr.entries[k] \notin st}
                ELSE {}
    IN  HistTotal(hist) + Cardinality(left) <= MaxHistory

----------------------------------------------------------------------------
(* Resources, and the three systems at rest *)

\* FeedProcessor.client, SimpleHttpStrategy.client, ArchiveStrategy.client,
\* BrowserStrategy.browser
Resources == {"feed_client", "simple_client", "archive_client", "browser"}

SchedOff == [pc |-> "off", queue |-> <<>>, rows |-> <<>>, dispatched |-> <<>>]

MainOff == [pc |-> "off", processor |-> FALSE, exiting |-> FALSE]

\* The variables of the systems that are not running
InitSchedOff == sched = SchedOff /\ slow = {} /\ broken = {}

InitCmdOff ==
    /\ main = MainOff
    /\ tasks = <<>>
    /\ shutdown = FALSE
    /\ releases = [r \in Resources |-> 0]

NoFetch == [op |-> "none"]

InitFetchOff == fetch = NoFetch /\ fetchers = <<>> /\ calls = <<>>

NoPenalty == [pc |-> "off"]

LimiterOff == [pc |-> "off"]

InitLifeOff ==
    /\ cleanup = [pc |-> "off"]
    /\ closed = FALSE
    /\ life = [pc |-> "off"]
    /\ pending = [pc |-> "off"]
    /\ runs = [pc |-> "off"]
    /\ procs = [pc |-> "off"]

InitAuxOff == penalty = NoPenalty /\ limiter = LimiterOff /\ InitLifeOff

----------------------------------------------------------------------------
(* Spec: a caller holding the Source instance of source 1 calls            *)
(* process_source, again and again, as time passes                         *)

Init ==
    /\ now = 0
    /\ db = [s \in {1} |-> NewSource(s)]
    /\ store = {}
    /\ history = <<>>
    /\ frame = NewFrame(NewSource(1))
    /\ failed_at = [s \in {1} |-> None]
    /\ InitSchedOff
    /\ InitCmdOff
    /\ InitFetchOff
    /\ InitAuxOff

\* Time passes between two calls
Advance ==
    /\ frame.pc = "done"
    /\ now + DirectTick <= MaxTime
    /\ now' = now + DirectTick
    /\ UNCHANGED <<db, store, history, frame, failed_at, schedVars, cmdVars, fetchVars, auxVars, lifeVars>>

\* await processor.process_source(source)
Call ==
    /\ frame.pc = "done"
    /\ frame' = ps_call(frame, now)
    /\ UNCHANGED <<now, db, store, history, failed_at, schedVars, cmdVars, fetchVars, auxVars, lifeVars>>

\* _fetch_feed returns
FeedFetched ==
    /\ frame.pc = "feed"
    /\ frame.obj.id \notin slow
    /\ \E feed \in Feeds :
          /\ Room(history, ps_feed(frame, now, feed), store)
          /\ frame' = ps_feed(frame, now, feed)
    /\ UNCHANGED <<now, db, store, history, failed_at, schedVars, cmdVars, fetchVars, auxVars, lifeVars>>

\* _process_entry returns for the next entry
EntryProcessed ==
    /\ frame.pc = "entries"
    /\ \E outs \in NetBehaviours :
         \E e \in {process_entry(frame.entries[frame.i], outs, store, history)} :
            /\ Room(e.history, ps_entry(frame, now, e), e.store)
            /\ frame' = ps_entry(frame, now, e)
            /\ store' = e.store
            /\ history' = e.history
    /\ UNCHANGED <<now, db, failed_at, schedVars, cmdVars, fetchVars, auxVars, lifeVars>>

\* source.save() returns, in _record_source_failure or _record_source_success
Saved ==
    /\ frame.pc = "saving"
    /\ frame.obj.id \notin broken
    /\ db' = [db EXCEPT ![frame.obj.id] = frame.obj]
    /\ failed_at' = IF frame.call.recorded = "failure"
                    THEN [failed_at EXCEPT ![frame.obj.id] = frame.obj.last_checked]
                    ELSE failed_at
    /\ frame' = ps_saved(frame)
    /\ UNCHANGED <<now, store, history, schedVars, cmdVars, fetchVars, auxVars, lifeVars>>

Next == Advance \/ Call \/ FeedFetched \/ EntryProcessed \/ Saved

Spec == Init /\ [][Next]_vars

----------------------------------------------------------------------------
(* SpecSched: sources/scheduler.py, ContentScheduler.  start() runs        *)
(* check_feeds once and the interval trigger runs it again every           *)
(* CYCLE_MINUTES.  check_feeds goes through the due sources one after the  *)
(* other; sched.pc is                                                      *)
(*   "start"  start() is about to run the first check                      *)
(*   "loop"   check_feeds is at the head of its async for                  *)
(*   "call"   check_feeds awaits process_source for Head(sched.queue)      *)
(*   "idle"   between two checks                                           *)

SchedSources == 1..NumSched

\* The filter without its test of the source type
due_any_type(src, t) ==
    /\ src.active
    /\ src.last_checked = None \/ src.last_checked[1] <= t - DUE_MINUTES

\* The filter of the two feed-check queries
due(src, t) ==
    /\ src.active
    /\ src.source_type = "rss"
    /\ src.last_checked = None \/ src.last_checked[1] <= t - DUE_MINUTES

\* The rows the query of check_feeds yields, in id order
due_sources(rows, t) ==
    LET n == Cardinality(DOMAIN rows)
        F[i \in 0..n] ==
            IF i = 0 THEN <<>>
            ELSE IF due(rows[i], t) THEN Append(F[i - 1], rows[i]) ELSE F[i - 1]
    IN  F[n]

\* check_feeds up to its query at time t.  rows (the rows as the query saw
\* them) and dispatched (the sources handed to process_source since) are
\* kept for the claims.
check_feeds_query(rows, t) ==
    [pc |-> "loop", queue |-> due_sources(rows, t), rows |-> rows, dispatched |-> <<>>]

\* check_feeds with the inner handler missing: the exception of one source
\* reaches the handler around the async for
check_feeds_except_outer(s) == [s EXCEPT !.pc = "idle", !.queue = <<>>]

\* check_feeds after process_source raised: the inner handler logs the
\* exception and the async for takes the next source
check_feeds_except(s) == [s EXCEPT !.pc = "loop", !.queue = Tail(@)]

InitSched ==
    /\ now = 0
    /\ db = [s \in SchedSources |-> NewSource(s)]
    /\ store = {}
    /\ history = <<>>
    /\ frame = NewFrame(NewSource(1))
    /\ failed_at = [s \in SchedSources |-> None]
    /\ sched = [pc |-> "start", queue |-> <<>>, rows |-> <<>>, dispatched |-> <<>>]
    /\ slow \in SUBSET SchedSources
    /\ broken \in SUBSET SchedSources
    /\ InitCmdOff
    /\ InitFetchOff
    /\ InitAuxOff

\* ContentScheduler.start: the initial check_feeds, up to its query
SchedStart ==
    /\ sched.pc = "start"
    /\ sched' = check_feeds_query(db, now)
    /\ UNCHANGED <<now, db, store, history, frame, failed_at, slow, broken, cmdVars, fetchVars, auxVars, lifeVars>>

\* The interval elapses and the job runs check_feeds, up to its query
SchedTrigger ==
    /\ sched.pc = "idle"
    /\ now + CYCLE_MINUTES <= MaxCycles * CYCLE_MINUTES
    /\ now' = now + CYCLE_MINUTES
    /\ sched' = check_feeds_query(db, now')
    /\ UNCHANGED <<db, store, history, frame, failed_at, slow, broken, cmdVars, fetchVars, auxVars, lifeVars>>

\* check_feeds takes the next source and awaits process_source(source)
SchedProcess ==
    /\ sched.pc = "loop"
    /\ sched.queue # <<>>
    /\ frame' = ps_call(NewFrame(Head(sched.queue)), now)
    /\ sched' = [sched EXCEPT !.pc = "call",
                              !.dispatched = Append(@, Head(sched.queue).id)]
    /\ UNCHANGED <<now, db, store, history, failed_at, slow, broken, cmdVars, fetchVars, auxVars, lifeVars>>

\* process_source has returned: aupdate(last_checked=now) on the row
SchedUpdate ==
    /\ sched.pc = "call"
    /\ frame.pc = "done"
    /\ db' = [db EXCEPT ![frame.obj.id].last_checked = Some(now)]
    /\ sched' = [sched EXCEPT !.pc = "loop", !.queue = Tail(@)]
    /\ UNCHANGED <<now, store, history, frame, failed_at, slow, broken, cmdVars, fetchVars, auxVars, lifeVars>>

\* source.save() raises in process_source, which raises in its turn
SaveRaises ==
    /\ frame.pc = "saving"
    /\ frame.obj.id \in broken
    /\ frame' = ps_save_raised(frame, now)
    /\ UNCHANGED <<now, db, store, history, failed_at, schedVars, cmdVars, fetchVars, auxVars, lifeVars>>

\* process_source has raised: the row is not updated
SchedRaised ==
    /\ sched.pc = "call"
    /\ frame.pc = "raised"
    /\ sched' = check_feeds_except(sched)
    /\ UNCHANGED <<now, db, store, history, frame, failed_at, slow, broken, cmdVars, fetchVars, auxVars, lifeVars>>

\* The async for is exhausted: check_feeds returns
SchedCycleEnd ==
    /\ sched.pc = "loop"
    /\ sched.queue = <<>>
    /\ sched' = [sched EXCEPT !.pc = "idle"]
    /\ UNCHANGED <<now, db, store, history, frame, failed_at, slow, broken, cmdVars, fetchVars, auxVars, lifeVars>>

NextSched ==
    \/ SchedStart \/ SchedTrigger \/ SchedProcess \/ SchedUpdate \/ SchedCycleEnd
    \/ FeedFetched \/ EntryProcessed \/ Saved \/ SaveRaises \/ SchedRaised

SpecSched == InitSched /\ [][NextSched]_vars

\* The event loop runs whatever is ready, and the clock does not stop
FairSpecSched == SpecSched /\ WF_vars(NextSched)

----------------------------------------------------------------------------
(* Claims about process_source, checked under Spec *)

\* A call has returned
Returned == frame.pc = "done" /\ frame.call.at # None

\* The call fetched a feed and found every entry of it already stored
AllEntriesStored ==
    /\ frame.entries # <<>>
    /\ \A k \in 1..Len(frame.entries) : frame.entries[k] \in frame.call.stored

\* The claim's own reading of "in backoff" for the instance at time t
BackoffWindow(src, t) ==
    /\ src.error_count >= FAILURE_THRESHOLD
    /\ src.last_checked # None
    /\ t - src.last_checked[1] < BACKOFF_MINUTES

\* The step is a call of process_source
IsCall == frame.pc = "done" /\ frame'.call.at = Some(now) /\ now' = now

\* The called process_source returned at once, for backoff, having fetched
\* nothing and changed nothing
SkippedForBackoff ==
    /\ frame'.pc = "done"
    /\ frame'.result.error = Some("backoff")
    /\ frame'.result.new_content = <<>>
    /\ ~frame'.call.feed_fetched
    /\ frame'.call.fetched = <<>>
    /\ history' = history
    /\ store' = store
    /\ frame'.obj = frame.obj
    /\ db' = db

\* C1: an entry whose URL is already stored is skipped: fetch_content is not
\* called for it and it counts neither as an attempt nor as a failure, so a
\* call whose feed holds only stored entries ends in a success: error_count
\* is 0 and last_success is the time of the call.
C1_StoredEntriesAreNoFailure ==
    (Returned /\ AllEntriesStored) =>
        /\ frame.call.fetched = <<>>
        /\ frame.result.fetch_failures = 0
        /\ ~frame.result.all_attempts_failed
        /\ frame.obj.error_count = 0
        /\ frame.obj.last_success = frame.call.at
        /\ db[1] = frame.obj

\* C3: a process_source call on a source with error_count >= 3 and
\* last_checked less than 60 minutes ago returns an error and no new content,
\* fetches neither the feed nor any entry, adds nothing to the history and
\* leaves the source (instance and row) as it was.
C3_BackoffSkipChangesNothing ==
    [][(IsCall /\ BackoffWindow(frame.obj, now)) => SkippedForBackoff]_vars

\* C3 witness: a call was skipped for backoff
C3_Witness ==
    /\ Returned
    /\ frame.result.error = Some("backoff")
    /\ BackoffWindow(frame.obj, now)
    /\ db[1] = frame.obj

\* C4 as stated: a call made within 60 minutes of a call that ended in a full
\* failure is a backoff skip: no feed fetch, no fetch attempt, history unchanged.
C4_SkipAfterAnyFullFailure ==
    [][(/\ IsCall
        /\ frame.result.all_attempts_failed
        /\ now - frame.call.at[1] < BACKOFF_MINUTES) => SkippedForBackoff]_vars

\* C4 amended: a call made within 60 minutes of a call that ended in a full
\* failure and left error_count at 3 or more is a backoff skip: no feed
\* fetch, no fetch attempt, history unchanged.
C4_SkipAfterThresholdFullFailure ==
    [][(/\ IsCall
        /\ frame.result.all_attempts_failed
        /\ frame.obj.error_count >= FAILURE_THRESHOLD
        /\ now - frame.call.at[1] < BACKOFF_MINUTES) => SkippedForBackoff]_vars

\* C4 witness: the call right after a full failure was skipped for backoff
C4_Witness ==
    /\ Returned
    /\ frame.call.after_full_failure
    /\ frame.result.error = Some("backoff")
    /\ frame.call.fetched = <<>>

----------------------------------------------------------------------------
(* Claims about ContentScheduler's feed checks, checked under SpecSched and *)
(* FairSpecSched                                                           *)

\* Source s is still to be processed in the running check
InQueue(s) == \E k \in 1..Len(sched.queue) : sched.queue[k].id = s

\* C2: backoff is a bounded window: when a check reaches a source in backoff
\* (error_count >= 3) and 60 minutes or more have passed since the failure
\* that was last recorded on it, process_source does not skip it: the feed is
\* fetched again.
C2_BackoffWindowEnds ==
    [][(/\ sched.pc = "loop"
        /\ sched'.pc = "call"
        /\ frame'.obj.error_count >= FAILURE_THRESHOLD
        /\ failed_at[frame'.obj.id] # None
        /\ now - failed_at[frame'.obj.id][1] >= BACKOFF_MINUTES)
       => frame'.call.feed_fetched]_vars

\* C6: one slow source never blocks the others: a due source of a check that
\* is not itself slow is processed to the end, whatever the other sources do.
C6_SlowSourceBlocksNoOne ==
    \A s \in SchedSources : (InQueue(s) /\ s \notin slow) ~> ~InQueue(s)

----------------------------------------------------------------------------
(* SpecCmd: sources/management/commands/check_feeds.py, one run of the     *)
(* command.  main.pc says where process_sources (and the cleanup in its    *)
(* finally) stands:                                                        *)
(*   "init"            asyncio.run is about to start process_sources       *)
(*   "get_sources"     awaiting get_sources(); the processor exists        *)
(*   "gather"          the tasks exist; awaiting gather(tasks)             *)
(*   "aclose"          cleanup awaits self._processor.aclose()             *)
(*   "cancel"          cleanup is at its loop over self._tasks             *)
(*   "cleanup_gather"  cleanup awaits gather(self._tasks)                  *)
(*   "exit"            process_sources is over                             *)
(* main.exiting: SystemExit has been raised by the signal handler.         *)
(* A task of process_with_semaphore has                                    *)
(*   pc "none"     no task was created for the source                      *)
(*      "created"  created, its first step still to run                    *)
(*      "waiting"  waiting for the semaphore                               *)
(*      "inside"   holding a slot, inside process_source (fr says where)   *)
(*      "wsave"    holding a slot, process_source has returned, awaiting   *)
(*                 source.save() in process_single_source                  *)
(*      "done"     finished, whichever way; its frame is gone              *)
(*   timer      the call_later handle of AsyncTimeout is pending           *)
(*   timed_out  the timer has fired                                        *)
(*   swallowed  a CancelledError or SystemExit was caught by a bare except *)
(*              of BrowserStrategy.fetch; the fetch in flight goes on      *)
(*   source0    the Source row as get_sources read it                      *)

CmdSources == 1..NumCmd

CmdFeeds == FeedsUpTo(CmdMaxEntries)

NoTask(src) ==
    [pc |-> "none", fr |-> NewFrame(src), timer |-> FALSE, timed_out |-> FALSE,
     swallowed |-> FALSE, source0 |-> src]

NewTask(src) == [NoTask(src) EXCEPT !.pc = "created"]

\* The task is over
finished(tk) == [NoTask(tk.source0) EXCEPT !.pc = "done", !.timed_out = tk.timed_out]

\* The tasks that hold a slot of the semaphore
Held == {c \in CmdSources : tasks[c].pc \in {"inside", "wsave"}}

\* The awaits of the main task: only there can another task run
MainAwaits == {"get_sources", "gather", "aclose", "cleanup_gather"}

\* process_single_source, from the return of process_source to its save:
\* the instance as it is about to be saved
pss_outcome(src, res, t) ==
    LET ec == IF res.error # None THEN src.error_count + 1 ELSE 0
    IN  [src EXCEPT !.error_count = ec,
                    !.active = IF ec >= DEACTIVATE_AT THEN FALSE ELSE @,
                    !.last_checked = Some(t)]

\* The task after a step of its process_source that led to frame fr: at the
\* next await of process_source, or, process_source having returned, at the
\* save of process_single_source
after_step(tk, fr, t) ==
    IF fr.pc = "done"
    THEN [tk EXCEPT !.pc = "wsave",
                    !.fr = [fr EXCEPT !.obj = pss_outcome(fr.obj, fr.result, t)]]
    ELSE [tk EXCEPT !.pc = "inside", !.fr = fr]

\* The slot is acquired: AsyncTimeout arms its timer and process_source is
\* called
enter(tk, t) == after_step([tk EXCEPT !.timer = TRUE], ps_call(tk.fr, t), t)

\* The await the task is at lies inside a try of BrowserStrategy.fetch whose
\* handler is a bare except (wait_for_selector, page.close)
CanSwallow(tk) == tk.pc = "inside" /\ tk.fr.pc = "entries"

\* The await the task is at is a source.save() running in a worker thread,
\* which a cancellation of the task may or may not let through
SaveInFlight(tk) == tk.pc = "wsave" \/ (tk.pc = "inside" /\ tk.fr.pc = "saving")

\* task.cancel() on a task, and the step in which the CancelledError is
\* delivered.  A task that has not acquired the semaphore ends cancelled.
\* Inside the AsyncTimeout block the exception either is caught by a bare
\* except of the browser strategy (swallow) or travels up to
\* AsyncTimeout.__aexit__, which suppresses it: process_single_source then
\* returns without having run any of its except branches.
cancel_task(tk, swallow) ==
    IF tk.pc \in {"none", "done"} THEN tk
    ELSE IF swallow /\ CanSwallow(tk) THEN [tk EXCEPT !.swallowed = TRUE]
    ELSE finished(tk)

\* The choices open when tasks are cancelled: which cancellations are
\* swallowed, which saves in flight still reach the record store
CancelChoices ==
    {ch \in [CmdSources -> [swallow : BOOLEAN, lands : BOOLEAN]] :
        \A c \in CmdSources :
            /\ ch[c].swallow => CanSwallow(tasks[c])
            /\ ch[c].lands => (SaveInFlight(tasks[c]) /\ ~ch[c].swallow)}

\* Every task that is not done is cancelled
cancel_all(ch) ==
    /\ tasks' = [c \in CmdSources |-> cancel_task(tasks[c], ch[c].swallow)]
    /\ db' = [c \in CmdSources |-> IF ch[c].lands THEN tasks[c].fr.obj ELSE db[c]]

InitCmd ==
    /\ now = 0
    /\ db = [s \in CmdSources |-> NewSource(s)]
    /\ store = {}
    /\ history = <<>>
    /\ frame = NewFrame(NewSource(1))
    /\ failed_at = [s \in CmdSources |-> None]
    /\ InitSchedOff
    /\ main = [pc |-> "init", processor |-> FALSE, exiting |-> FALSE]
    /\ tasks = [c \in CmdSources |-> NoTask(db[c])]
    /\ shutdown = FALSE
    /\ releases = [r \in Resources |-> 0]
    /\ InitFetchOff
    /\ InitAuxOff

\* process_sources starts: FeedProcessor(), Semaphore(concurrency), and the
\* await of get_sources()
CmdBegin ==
    /\ main.pc = "init"
    /\ main' = [main EXCEPT !.pc = "get_sources", !.processor = TRUE]
    /\ UNCHANGED <<now, db, store, history, frame, failed_at, schedVars,
                   tasks, shutdown, releases, fetchVars, auxVars, lifeVars>>

\* get_sources() returns; a task is created for every due source and main
\* awaits gather.  Without a due source process_sources returns, which
\* takes it to the cleanup of its finally.
CreateTasks ==
    /\ main.pc = "get_sources"
    /\ LET q == due_sources(db, now)
       IN  /\ tasks' = [c \in CmdSources |->
                          IF \E k \in 1..Len(q) : q[k].id = c
                          THEN NewTask(db[c]) ELSE tasks[c]]
           /\ main' = [main EXCEPT !.pc = IF q = <<>> THEN "aclose" ELSE "gather"]
    /\ UNCHANGED <<now, db, store, history, frame, failed_at, schedVars,
                   shutdown, releases, fetchVars, auxVars, lifeVars>>

\* SIGTERM/SIGINT arrives while the main task runs the task-creating loop,
\* k tasks having been created.  handle_sigterm sets the flag; its own
\* aclose() on a new event loop raises RuntimeError (a loop is running), so
\* it closes nothing; SystemExit then leaves process_sources through the
\* finally, which runs cleanup.
CreateTasksInterrupted ==
    /\ main.pc = "get_sources"
    /\ ~shutdown
    /\ LET q == due_sources(db, now)
       IN  \E k \in 0..Len(q) :
              tasks' = [c \in CmdSources |->
                          IF \E j \in 1..k : q[j].id = c
                          THEN NewTask(db[c]) ELSE tasks[c]]
    /\ shutdown' = TRUE
    /\ main' = [main EXCEPT !.pc = "aclose", !.exiting = TRUE]
    /\ UNCHANGED <<now, db, store, history, frame, failed_at, schedVars, releases, fetchVars, auxVars, lifeVars>>

\* The first step of a task of process_with_semaphore; tasks start in the
\* order of their creation.  The flag is tested, then the semaphore is
\* acquired, at once if a slot is free and no one is waiting.
TaskStart(c) ==
    /\ main.pc \in MainAwaits
    /\ tasks[c].pc = "created"
    /\ \A d \in 1..(c - 1) : tasks[d].pc # "created"
    /\ tasks' = [tasks EXCEPT ![c] =
                   IF shutdown THEN finished(@)
                   ELSE IF /\ Cardinality(Held) < Concurrency
                           /\ \A d \in CmdSources : tasks[d].pc # "waiting"
                        THEN enter(@, now)
                        ELSE [@ EXCEPT !.pc = "waiting"]]
    /\ UNCHANGED <<now, db, store, history, frame, failed_at, schedVars,
                   main, shutdown, releases, fetchVars, auxVars, lifeVars>>

\* A slot is free: the longest-waiting task acquires it
TaskAdmit(c) ==
    /\ main.pc \in MainAwaits
    /\ tasks[c].pc = "waiting"
    /\ \A d \in 1..(c - 1) : tasks[d].pc # "waiting"
    /\ Cardinality(Held) < Concurrency
    /\ tasks' = [tasks EXCEPT ![c] = enter(@, now)]
    /\ UNCHANGED <<now, db, store, history, frame, failed_at, schedVars,
                   main, shutdown, releases, fetchVars, auxVars, lifeVars>>

\* _fetch_feed returns in task c
TaskFeed(c) ==
    /\ main.pc \in MainAwaits
    /\ tasks[c].pc = "inside"
    /\ tasks[c].fr.pc = "feed"
    /\ c \notin slow
    /\ \E feed \in CmdFeeds :
          /\ Room(history, ps_feed(tasks[c].fr, now, feed), store)
          /\ tasks' = [tasks EXCEPT ![c] = after_step(@, ps_feed(@.fr, now, feed), now)]
    /\ UNCHANGED <<now, db, store, history, frame, failed_at, schedVars,
                   main, shutdown, releases, fetchVars, auxVars, lifeVars>>

\* _process_entry returns in task c.  After a swallowed cancellation the
\* fetch was in the browser strategy.
TaskEntry(c) ==
    /\ main.pc \in MainAwaits
    /\ tasks[c].pc = "inside"
    /\ tasks[c].fr.pc = "entries"
    /\ \E outs \in NetBehaviours :
         \E e \in {process_entry(tasks[c].fr.entries[tasks[c].fr.i], outs, store, history)} :
            /\ Room(e.history, ps_entry(tasks[c].fr, now, e), e.store)
            /\ tasks[c].swallowed =>
                  \E k \in 1..Len(e.tried) : e.tried[k] = "BROWSER"
            /\ tasks' = [tasks EXCEPT ![c] =
                           after_step([@ EXCEPT !.swallowed = FALSE],
                                      ps_entry(@.fr, now, e), now)]
            /\ store' = e.store
            /\ history' = e.history
    /\ UNCHANGED <<now, db, frame, failed_at, schedVars, main, shutdown, releases, fetchVars, auxVars, lifeVars>>

\* source.save() of _record_source_failure or _record_source_success returns
\* in task c; process_source returns
TaskSaved(c) ==
    /\ main.pc \in MainAwaits
    /\ tasks[c].pc = "inside"
    /\ tasks[c].fr.pc = "saving"
    /\ db' = [db EXCEPT ![c] = tasks[c].fr.obj]
    /\ failed_at' = IF tasks[c].fr.call.recorded = "failure"
                    THEN [failed_at EXCEPT ![c] = tasks[c].fr.obj.last_checked]
                    ELSE failed_at
    /\ tasks' = [tasks EXCEPT ![c] = after_step(@, ps_saved(@.fr), now)]
    /\ UNCHANGED <<now, store, history, frame, schedVars, main, shutdown, releases, fetchVars, auxVars, lifeVars>>

\* source.save() of process_single_source returns in task c: AsyncTimeout
\* cancels its timer, the slot is released, the task is done
TaskWrapperSaved(c) ==
    /\ main.pc \in MainAwaits
    /\ tasks[c].pc = "wsave"
    /\ db' = [db EXCEPT ![c] = tasks[c].fr.obj]
    /\ tasks' = [tasks EXCEPT ![c] = finished(@)]
    /\ UNCHANGED <<now, store, history, frame, failed_at, schedVars,
                   main, shutdown, releases, fetchVars, auxVars, lifeVars>>

\* The timer of AsyncTimeout fires in task c: task.cancel()
TaskTimeout(c) ==
    /\ main.pc \in MainAwaits
    /\ tasks[c].timer
    /\ tasks[c].pc \in {"inside", "wsave"}
    /\ \E swallow \in {FALSE, CanSwallow(tasks[c])} :
         \E lands \in {FALSE, SaveInFlight(tasks[c]) /\ ~swallow} :
            /\ tasks' = [tasks EXCEPT ![c] =
                           [cancel_task(@, swallow) EXCEPT !.timer = FALSE,
                                                           !.timed_out = TRUE]]
            /\ db' = IF lands THEN [db EXCEPT ![c] = tasks[c].fr.obj] ELSE db
    /\ UNCHANGED <<now, store, history, frame, failed_at, schedVars,
                   main, shutdown, releases, fetchVars, auxVars, lifeVars>>

\* SIGTERM/SIGINT arrives while the loop is idle, or inside a task outside
\* any bare except.  handle_sigterm sets the flag and closes nothing (see
\* CreateTasksInterrupted); SystemExit stops the loop, and asyncio.run
\* cancels every task and runs the loop until all of them are done.  The
\* main task, awaiting get_sources, goes to its finally; awaiting gather, it
\* is woken once every child is done.
Sigterm ==
    /\ main.pc \in {"get_sources", "gather"}
    /\ ~shutdown
    /\ shutdown' = TRUE
    /\ main' = [main EXCEPT !.exiting = TRUE,
                            !.pc = IF @ = "get_sources" THEN "aclose" ELSE @]
    /\ \E ch \in CancelChoices : cancel_all(ch)
    /\ UNCHANGED <<now, store, history, frame, failed_at, schedVars, releases, fetchVars, auxVars, lifeVars>>

\* SIGTERM/SIGINT arrives while task c runs code of BrowserStrategy.fetch
\* under a bare except: the flag is set and SystemExit is caught there.
\* Nothing is cancelled and the loop goes on.
SigtermSwallowed(c) ==
    /\ main.pc \in MainAwaits
    /\ ~shutdown
    /\ CanSwallow(tasks[c])
    /\ shutdown' = TRUE
    /\ tasks' = [tasks EXCEPT ![c] = [@ EXCEPT !.swallowed = TRUE]]
    /\ UNCHANGED <<now, db, store, history, frame, failed_at, schedVars,
                   main, releases, fetchVars, auxVars, lifeVars>>

\* gather(tasks) is over: every task is done; process_sources goes to the
\* cleanup of its finally
GatherDone ==
    /\ main.pc = "gather"
    /\ \A c \in CmdSources : tasks[c].pc \in {"none", "done"}
    /\ main' = [main EXCEPT !.pc = "aclose"]
    /\ UNCHANGED <<now, db, store, history, frame, failed_at, schedVars,
                   tasks, shutdown, releases, fetchVars, auxVars, lifeVars>>

\* cleanup: self._processor.aclose() returns, having closed
\* FeedProcessor.client and nothing else; self._processor = None
CleanupClose ==
    /\ main.pc = "aclose"
    /\ releases' = [releases EXCEPT !["feed_client"] = @ + 1]
    /\ main' = [main EXCEPT !.pc = "cancel", !.processor = FALSE]
    /\ UNCHANGED <<now, db, store, history, frame, failed_at, schedVars,
                   tasks, shutdown, fetchVars, auxVars, lifeVars>>

\* cleanup: every task that is not done is cancelled, then gather is awaited
CleanupCancel ==
    /\ main.pc = "cancel"
    /\ main' = [main EXCEPT !.pc = "cleanup_gather"]
    /\ \E ch \in CancelChoices : cancel_all(ch)
    /\ UNCHANGED <<now, store, history, frame, failed_at, schedVars,
                   shutdown, releases, fetchVars, auxVars, lifeVars>>

\* cleanup: gather(self._tasks) is over; process_sources ends
CleanupDone ==
    /\ main.pc = "cleanup_gather"
    /\ \A c \in CmdSources : tasks[c].pc \in {"none", "done"}
    /\ main' = [main EXCEPT !.pc = "exit"]
    /\ UNCHANGED <<now, db, store, history, frame, failed_at, schedVars,
                   tasks, shutdown, releases, fetchVars, auxVars, lifeVars>>

NextCmd ==
    \/ CmdBegin \/ CreateTasks \/ CreateTasksInterrupted
    \/ \E c \in CmdSources :
          \/ TaskStart(c) \/ TaskAdmit(c) \/ TaskFeed(c) \/ TaskEntry(c)
          \/ TaskSaved(c) \/ TaskWrapperSaved(c) \/ TaskTimeout(c)
          \/ SigtermSwallowed(c)
    \/ Sigterm \/ GatherDone \/ CleanupClose \/ CleanupCancel \/ CleanupDone

SpecCmd == InitCmd /\ [][NextCmd]_vars

----------------------------------------------------------------------------
(* Claims about the check_feeds command, checked under SpecCmd *)

\* The created tasks
Tasks == {c \in DOMAIN tasks : tasks[c].pc # "none"}

\* The HTTP clients, which exist from the construction of the processor on
Clients == {"feed_client", "simple_client", "archive_client"}

\* C5: when the per-source timeout fires while a source is being processed,
\* the processing is cancelled and a failure is recorded: once the task is
\* over the persisted error_count is one more than it was.
C5_TimeoutRecordsFailure ==
    \A c \in Tasks :
        (tasks[c].timed_out /\ tasks[c].pc = "done")
            => db[c].error_count = tasks[c].source0.error_count + 1

\* C7: at most Concurrency sources are inside process_source at any moment,
\* and a source whose timeout has fired holds no slot any more.
C7_BoundedAndReleasedOnTimeout ==
    /\ Cardinality({c \in Tasks : tasks[c].pc = "inside"}) <= Concurrency
    /\ \A c \in Tasks : tasks[c].timed_out => tasks[c].pc \notin {"inside", "wsave"}

\* C8: the processor's resources are released only when every per-source
\* task is over.
C8_ClosedAfterTasksSettled ==
    releases["feed_client"] > 0 => \A c \in Tasks : tasks[c].pc = "done"

\* C9: after a shutdown, every HTTP client has been released exactly once,
\* and the browser at most once.
C9_EveryResourceReleasedOnce ==
    (shutdown /\ main.pc = "exit") =>
        /\ \A r \in Clients : releases[r] = 1
        /\ releases["browser"] <= 1

\* C10: once the shutdown flag is set, no task that has not begun
\* process_source (created, or waiting for the semaphore) begins it.
C10_NoStartAfterShutdown ==
    [][\A c \in Tasks :
          (shutdown /\ tasks[c].pc \in {"created", "waiting"})
              => tasks'[c].pc \notin {"inside", "wsave"}]_vars

----------------------------------------------------------------------------
(* SpecFetch: one call on the fetcher, made on drawn inputs: a history the *)
(* StrategyManager can hold, a URL, and what the strategies come back with *)

ArticleUrl == [host |-> <<"h">>, path |-> <<<<"a">>, <<"b">>, <<"1">>>>]

\* A URL of another pattern, with a single path segment
OtherUrl == [host |-> <<"h">>, path |-> <<<<"c">>>>]

FetchUrls == {ArticleUrl, OtherUrl}

\* 5 successes and 1 failure for BROWSER, 0 successes and 5 failures for SIMPLE
ExampleHistory ==
    [p \in {get_url_pattern(ArticleUrl)} |->
        [successful_strategies |-> [s \in Strategies |-> IF s = "BROWSER" THEN 5 ELSE 0],
         failed_strategies     |-> [s \in Strategies |->
                                       CASE s = "BROWSER" -> 1
                                         [] s = "SIMPLE" -> 5
                                         [] OTHER -> 0]]]

\* The histories drawn: none, or one for ArticleUrl's pattern with counters
\* up to n.  A pattern enters the history with its first recorded attempt, so
\* its counters are never all zero.
FetchHistories(n) ==
    LET counts == [Strategies -> 0..n]
        drawn == {[p \in {get_url_pattern(ArticleUrl)} |->
                      [successful_strategies |-> s, failed_strategies |-> f]] :
                  s \in counts, f \in counts}
    IN  {<<>>, ExampleHistory} \cup {h \in drawn : HistTotal(h) > 0}

\* The results record_attempt is given: what a strategy returned, or what
\* fetch_content built for an exception
FetchResults ==
    {create_result(o, st) : o \in StrategyOutcome \ {"RAISE"}, st \in Strategies}
    \cup {exception_result(st) : st \in Strategies}

InitFetch ==
    /\ now = 0
    /\ db = [s \in {1} |-> NewSource(s)]
    /\ store = {}
    /\ history \in FetchHistories(MaxCount)
    /\ frame = NewFrame(NewSource(1))
    /\ failed_at = [s \in {1} |-> None]
    /\ InitSchedOff
    /\ InitCmdOff
    /\ InitFetchOff
    /\ InitAuxOff

\* strategy_manager.get_optimal_strategy(url)
GetOptimalStrategy ==
    /\ fetch.op = "none"
    /\ \E url \in FetchUrls :
         fetch' = [op |-> "get_optimal_strategy", url |-> url, before |-> history,
                   result |-> get_optimal_strategy(history, url)]
    /\ UNCHANGED <<now, db, store, history, frame, failed_at, schedVars, cmdVars,
                   fetchers, calls, auxVars, lifeVars>>

\* strategy_manager.record_attempt(url, result, strategy)
RecordAttempt ==
    /\ fetch.op = "none"
    /\ \E url \in FetchUrls, r \in FetchResults :
         /\ history' = record_attempt(history, url, r, r.strategy)
         /\ fetch' = [op |-> "record_attempt", url |-> url, before |-> history,
                      result |-> r]
    /\ UNCHANGED <<now, db, store, frame, failed_at, schedVars, cmdVars,
                   fetchers, calls, auxVars, lifeVars>>

\* await fetcher.fetch_content(url)
FetchContent ==
    /\ fetch.op = "none"
    /\ \E url \in FetchUrls, outs \in [Strategies -> StrategyOutcome] :
         LET f == fetch_content(history, url, outs)
         IN  /\ history' = f.history
             /\ fetch' = [op |-> "fetch_content", url |-> url, before |-> history,
                          outs |-> outs, result |-> f.result, tried |-> f.tried]
    /\ UNCHANGED <<now, db, store, frame, failed_at, schedVars, cmdVars,
                   fetchers, calls, auxVars, lifeVars>>

NextFetch == GetOptimalStrategy \/ RecordAttempt \/ FetchContent

SpecFetch == InitFetch /\ [][NextFetch]_vars

----------------------------------------------------------------------------
(* Claims about the fetcher, checked under SpecFetch *)

\* The counters the history holds for url's pattern
Counters(hist, url) ==
    LET p == get_url_pattern(url)
    IN  IF p \in DOMAIN hist THEN hist[p] ELSE NewHistory

\* C11: every attempt recorded through record_attempt adds one to the
\* strategy's success counter exactly when the result is a success in the
\* sense of FetchResult.success, and one to its failure counter otherwise.
C11_HistoryAgreesWithSuccess ==
    fetch.op = "record_attempt" =>
        LET b == Counters(fetch.before, fetch.url)
            a == Counters(history, fetch.url)
            st == fetch.result.strategy
        IN  IF success(fetch.result)
            THEN a = [b EXCEPT !.successful_strategies[st] = @ + 1]
            ELSE a = [b EXCEPT !.failed_strategies[st] = @ + 1]

\* The enumeration rotated to start at strategy st
Rotation(st) ==
    LET n == Len(FetchStrategy)
        k == CHOOSE i \in 1..n : FetchStrategy[i] = st
    IN  [j \in 1..n |-> FetchStrategy[((k + j - 2) % n) + 1]]

\* The sequence a fetch_content call had to follow
Sequence == Rotation(get_optimal_strategy(fetch.before, fetch.url))

IsPrefix(a, b) == Len(a) <= Len(b) /\ a = SubSeq(b, 1, Len(a))

\* C12: fetch_content attempts the strategies in the enumeration order
\* rotated to start at the optimal strategy, each at most once per call.
C12_AttemptsFollowRotation ==
    fetch.op = "fetch_content" =>
        /\ fetch.tried # <<>>
        /\ IsPrefix(fetch.tried, Sequence)
        /\ \A i, j \in 1..Len(fetch.tried) : i # j => fetch.tried[i] # fetch.tried[j]
        /\ get_optimal_strategy(fetch.before, fetch.url) = "BROWSER"
              => IsPrefix(fetch.tried, <<"BROWSER", "ARCHIVE", "SIMPLE">>)

\* A call that started at BROWSER and went through the whole sequence
C12_Witness ==
    /\ fetch.op = "fetch_content"
    /\ get_optimal_strategy(fetch.before, fetch.url) = "BROWSER"
    /\ fetch.tried = <<"BROWSER", "ARCHIVE", "SIMPLE">>

\* Strategy st came back, in the call, with content of quality FULL or PARTIAL
CameBackWithSuccess(st) == fetch.outs[st] \in {"FULL", "PARTIAL"}

\* The position in the sequence of the first strategy that comes back with a
\* success, 0 if none does
FirstSuccess ==
    LET hits == {k \in 1..Len(Sequence) : CameBackWithSuccess(Sequence[k])}
    IN  IF hits = {} THEN 0 ELSE CHOOSE k \in hits : \A m \in hits : k <= m

\* Attempts recorded for strategy st on the call's pattern, during the call
Recorded(st) ==
    LET b == Counters(fetch.before, fetch.url)
        a == Counters(history, fetch.url)
    IN  [successes |-> a.successful_strategies[st] - b.successful_strategies[st],
         failures  |-> a.failed_strategies[st] - b.failed_strategies[st]]

\* C13: when a strategy returns a success, fetch_content records that one
\* attempt and returns that result at once: no later strategy of the
\* sequence is attempted or recorded.
C13_SuccessReturnsImmediately ==
    fetch.op = "fetch_content" /\ FirstSuccess > 0 =>
        LET k == FirstSuccess
        IN  /\ fetch.result = create_result(fetch.outs[Sequence[k]], Sequence[k])
            /\ fetch.tried = SubSeq(Sequence, 1, k)
            /\ Recorded(Sequence[k]) = [successes |-> 1, failures |-> 0]
            /\ \A m \in (k + 1)..Len(Sequence) :
                  Recorded(Sequence[m]) = [successes |-> 0, failures |-> 0]

\* The second strategy succeeds after the first failed, and the third, which
\* would have succeeded too, is left alone
C13_Witness ==
    /\ fetch.op = "fetch_content"
    /\ FirstSuccess = 2
    /\ CameBackWithSuccess(Sequence[3])
    /\ Len(fetch.tried) = 2

\* C14: when a strategy's fetch raises, fetch_content records one failed
\* attempt for that strategy and goes on with the next strategy of the
\* sequence.
C14_ExceptionRecordedAndSkipped ==
    fetch.op = "fetch_content" =>
        \A k \in 1..Len(fetch.tried) :
            fetch.outs[Sequence[k]] = "RAISE" =>
                /\ Recorded(Sequence[k]) = [successes |-> 0, failures |-> 1]
                /\ k < Len(Sequence) => /\ Len(fetch.tried) > k
                                        /\ fetch.tried[k + 1] = Sequence[k + 1]

\* The first strategy raised and the second one was attempted
C14_Witness ==
    /\ fetch.op = "fetch_content"
    /\ fetch.outs[Sequence[1]] = "RAISE"
    /\ Len(fetch.tried) >= 2
    /\ Recorded(Sequence[1]).failures = 1

\* The error the attempt on strategy st carried in the call: the exception's
\* message, the returned result's error, or None
AttemptError(st) ==
    IF fetch.outs[st] = "RAISE" THEN exception_result(st).error
    ELSE create_result(fetch.outs[st], st).error

\* The position in the sequence of the last attempt that carried an error,
\* 0 if none did
LastWithError ==
    LET hits == {k \in 1..Len(fetch.tried) : AttemptError(fetch.tried[k]) # None}
    IN  IF hits = {} THEN 0 ELSE CHOOSE k \in hits : \A m \in hits : m <= k

\* C15: when no strategy of the sequence succeeds, fetch_content returns a
\* result without content, of quality EMPTY, whose error refers to the last
\* error met in the chain, whatever each strategy came back with.
C15_AllFailedRefersToLastError ==
    fetch.op = "fetch_content" /\ FirstSuccess = 0 =>
        /\ ~fetch.result.content
        /\ fetch.result.quality = "EMPTY"
        /\ LastWithError > 0 =>
              fetch.result.error
                  = Some(<<"all_failed", AttemptError(fetch.tried[LastWithError])>>)

\* Where strategy st stands in the enumeration
Position(st) == CHOOSE i \in 1..Len(FetchStrategy) : FetchStrategy[i] = st

\* C16: get_optimal_strategy returns, among the strategies with a recorded
\* attempt for the URL's pattern, the one with the highest ratio
\* successes/(successes+failures), the first of the enumeration among equals,
\* and SIMPLE for a pattern without history; 5 successes and 1 failure for
\* BROWSER against 5 failures for SIMPLE give BROWSER.
C16_OptimalIsBestRatio ==
    fetch.op = "get_optimal_strategy" =>
        LET h == Counters(fetch.before, fetch.url)
            S(st) == h.successful_strategies[st]
            T(st) == h.successful_strategies[st] + h.failed_strategies[st]
            attempted == {st \in Strategies : T(st) > 0}
            best == fetch.result
        IN  /\ attempted = {} => best = "SIMPLE"
            /\ attempted # {} =>
                  /\ best \in attempted
                  /\ \A st \in attempted :
                        \/ S(best) * T(st) > S(st) * T(best)
                        \/ /\ S(best) * T(st) = S(st) * T(best)
                           /\ Position(best) <= Position(st)
            /\ fetch.before = ExampleHistory /\ fetch.url = ArticleUrl => best = "BROWSER"

\* BROWSER and ARCHIVE have the same, best, ratio and SIMPLE a lower one
C16_Witness ==
    /\ fetch.op = "get_optimal_strategy"
    /\ fetch.result = "BROWSER"
    /\ LET h == Counters(fetch.before, fetch.url)
       IN  /\ h.successful_strategies["BROWSER"] > 0
           /\ h.successful_strategies["ARCHIVE"] = h.successful_strategies["BROWSER"]
           /\ h.failed_strategies["ARCHIVE"] = h.failed_strategies["BROWSER"]
           /\ h.failed_strategies["SIMPLE"] > 0

----------------------------------------------------------------------------
(* SpecFetchers: fetch_content called by several tasks of one event loop   *)
(* on one SmartContentFetcher.  An activation runs from one await to the   *)
(* next without interruption; it awaits only the strategy's fetch.         *)
(*   pc = "idle"   not called yet                                          *)
(*   pc = "fetch"  awaiting seq[i]'s fetch                                 *)
(*   pc = "done"   returned result                                         *)
(* first_seen records that the pattern had no history when the call looked *)
(* it up.                                                                  *)

Fetchers == 1..NumFetchers

IdleFetcher == [pc |-> "idle"]

\* fetch_content from the call to its first await
fc_call(hist, url) ==
    [pc |-> "fetch", url |-> url,
     seq |-> get_strategy_sequence(get_optimal_strategy(hist, url)),
     i |-> 1, last_error |-> None, result |-> None,
     first_seen |-> get_url_pattern(url) \notin DOMAIN hist]

\* fetch_content from the return of seq[i]'s fetch to the next await or to
\* its own return: the activation and the history after it
fc_resume(fr, hist, outcome) ==
    LET turn == fc_turn(hist, fr.url, fr.seq[fr.i], outcome)
    IN  [history |-> turn.history,
         fetcher |->
            IF turn.returns
            THEN [fr EXCEPT !.pc = "done", !.result = Some(turn.result)]
            ELSE IF fr.i = Len(fr.seq)
            THEN [fr EXCEPT !.pc = "done", !.last_error = turn.last_error,
                            !.result = Some(all_failed_result(fr.seq[1], turn.last_error))]
            ELSE [fr EXCEPT !.i = @ + 1, !.last_error = turn.last_error]]

\* One more record_attempt call counted for the pattern and strategy
count_call(cs, pattern, strategy) ==
    [p \in DOMAIN cs \cup {pattern} |->
        LET old == IF p \in DOMAIN cs THEN cs[p] ELSE [st \in Strategies |-> 0]
        IN  IF p = pattern THEN [old EXCEPT ![strategy] = @ + 1] ELSE old]

InitFetchers ==
    /\ now = 0
    /\ db = [s \in {1} |-> NewSource(s)]
    /\ store = {}
    /\ history = <<>>
    /\ frame = NewFrame(NewSource(1))
    /\ failed_at = [s \in {1} |-> None]
    /\ InitSchedOff
    /\ InitCmdOff
    /\ fetch = NoFetch
    /\ fetchers = [c \in Fetchers |-> IdleFetcher]
    /\ calls = <<>>
    /\ InitAuxOff

\* A task calls fetcher.fetch_content(url)
FetcherCall(c) ==
    /\ fetchers[c].pc = "idle"
    /\ \E url \in FetchUrls : fetchers' = [fetchers EXCEPT ![c] = fc_call(history, url)]
    /\ UNCHANGED <<now, db, store, history, frame, failed_at, schedVars, cmdVars,
                   fetch, calls, auxVars, lifeVars>>

\* The strategy's fetch comes back and the task runs on
FetcherResume(c) ==
    /\ fetchers[c].pc = "fetch"
    /\ \E outcome \in StrategyOutcome :
         LET fr == fetchers[c]
             r == fc_resume(fr, history, outcome)
         IN  /\ fetchers' = [fetchers EXCEPT ![c] = r.fetcher]
             /\ history' = r.history
             /\ calls' = count_call(calls, get_url_pattern(fr.url), fr.seq[fr.i])
    /\ UNCHANGED <<now, db, store, frame, failed_at, schedVars, cmdVars, fetch, auxVars, lifeVars>>

NextFetchers == \E c \in Fetchers : FetcherCall(c) \/ FetcherResume(c)

SpecFetchers == InitFetchers /\ [][NextFetchers]_vars

----------------------------------------------------------------------------
(* Claims about concurrent fetch_content calls, checked under SpecFetchers *)

\* C17: whatever the interleaving of the calls, for every pattern and
\* strategy the history's successes plus failures is the number of
\* record_attempt calls made for them: no increment is lost or doubled.
C17_NoLostUpdate ==
    /\ DOMAIN history = DOMAIN calls
    /\ \A p \in DOMAIN calls : \A st \in Strategies :
          history[p].successful_strategies[st] + history[p].failed_strategies[st]
              = calls[p][st]

\* Two tasks looked the same pattern up before it had any history, and both
\* then recorded an attempt with the same strategy
C17_Witness ==
    \E c, d \in Fetchers :
        /\ c # d
        /\ fetchers[c].pc = "done" /\ fetchers[d].pc = "done"
        /\ fetchers[c].first_seen /\ fetchers[d].first_seen
        /\ fetchers[c].url = fetchers[d].url
        /\ calls[get_url_pattern(fetchers[c].url)]["SIMPLE"] = 2

----------------------------------------------------------------------------
(* SpecLoop: one process_source call on a healthy source whose feed has up *)
(* to LoopMaxEntries entries, all different; some of them may be in the    *)
(* store already                                                           *)

\* The URL of the k-th entry; the entries share a pattern
LoopUrl(k) == [host |-> <<"h">>, path |-> <<<<"a">>, <<"b">>, <<k>>>>]

LoopFeed(n) == [ok |-> TRUE, raises |-> FALSE, entries |-> [k \in 1..n |-> LoopUrl(k)]]

InitLoop ==
    /\ now = 0
    /\ db = [s \in {1} |-> NewSource(s)]
    /\ store \in SUBSET {LoopUrl(1), LoopUrl(2)}
    /\ history = <<>>
    /\ frame = NewFrame(NewSource(1))
    /\ failed_at = [s \in {1} |-> None]
    /\ InitSchedOff
    /\ InitCmdOff
    /\ InitFetchOff
    /\ InitAuxOff

\* await processor.process_source(source), once
LoopCall ==
    /\ frame.pc = "done"
    /\ frame.call.at = None
    /\ frame' = ps_call(frame, now)
    /\ UNCHANGED <<now, db, store, history, failed_at, schedVars, cmdVars, fetchVars, auxVars, lifeVars>>

\* _fetch_feed returns the feed
LoopFeedFetched ==
    /\ frame.pc = "feed"
    /\ \E n \in 1..LoopMaxEntries : frame' = ps_feed(frame, now, LoopFeed(n))
    /\ UNCHANGED <<now, db, store, history, failed_at, schedVars, cmdVars, fetchVars, auxVars, lifeVars>>

\* _process_entry returns for the next entry
LoopEntryProcessed ==
    /\ frame.pc = "entries"
    /\ \E outs \in NetBehaviours :
         LET e == process_entry(frame.entries[frame.i], outs, store, history)
         IN  /\ frame' = ps_entry(frame, now, e)
             /\ store' = e.store
             /\ history' = e.history
    /\ UNCHANGED <<now, db, failed_at, schedVars, cmdVars, fetchVars, auxVars, lifeVars>>

NextLoop == LoopCall \/ LoopFeedFetched \/ LoopEntryProcessed \/ Saved

SpecLoop == InitLoop /\ [][NextLoop]_vars

----------------------------------------------------------------------------
(* Claims about the per-entry loop, checked under SpecLoop *)

\* The attempts of the call so far
Attempts == frame.call.attempts

\* The loop of the call is over
LoopOver == frame.pc \in {"saving", "done"} /\ frame.entries # <<>>

\* The three attempts ending with the k-th all failed
ThreeFailedAt(k) ==
    k >= MAX_CONSECUTIVE_FAILURES /\ \A m \in (k - MAX_CONSECUTIVE_FAILURES + 1)..k : Attempts[m].failed

\* How many of the first k attempts failed
FailedAmong(k) == Cardinality({m \in 1..k : Attempts[m].failed})

\* After the k-th attempt the failure rate is above MAX_FAILURE_RATE, with
\* the minimum number of attempts made
HighRateAt(k) ==
    /\ k >= MIN_ATTEMPTS_BEFORE_RATE_CHECK
    /\ FailedAmong(k) * MAX_FAILURE_RATE_DEN > MAX_FAILURE_RATE_NUM * k

\* C18: the entries are attempted in feed order, and once three attempts in
\* a row have failed no later entry is attempted.
C18_StopsAfterThreeConsecutiveFailures ==
    /\ Len(Attempts) <= Len(frame.entries)
    /\ \A k \in 1..Len(Attempts) : Attempts[k].url = frame.entries[k]
    /\ \A k \in 1..Len(Attempts) : ThreeFailedAt(k) => Len(Attempts) = k
    /\ LoopOver /\ Len(Attempts) < Len(frame.entries)
          => ThreeFailedAt(Len(Attempts)) \/ HighRateAt(Len(Attempts))

\* A feed of 6 entries: the first 3 failed and the call returned with
\* entries 4 to 6 not attempted
C18_Witness ==
    /\ frame.pc = "done"
    /\ Len(frame.entries) = 6
    /\ Len(Attempts) = 3
    /\ ThreeFailedAt(3)
    /\ Len(frame.call.fetched) = 3

\* C19: after an attempt that leaves at least 5 attempts made and more than
\* half of them failed no further entry is attempted, and with fewer than 5
\* attempts the failure rate alone never stops the loop.
C19_StopsOnHighFailureRate ==
    /\ \A k \in 1..Len(Attempts) : HighRateAt(k) => Len(Attempts) = k
    /\ LoopOver /\ Len(Attempts) < Len(frame.entries)
                /\ Len(Attempts) < MIN_ATTEMPTS_BEFORE_RATE_CHECK
          => ThreeFailedAt(Len(Attempts))

\* The loop stopped on the failure rate alone: 5 attempts, 3 of them failed,
\* the last one a success, and an entry left
C19_Witness ==
    /\ frame.pc = "done"
    /\ Len(Attempts) = 5
    /\ Len(frame.entries) > 5
    /\ HighRateAt(5)
    /\ ~Attempts[5].failed

----------------------------------------------------------------------------
(* Claims about the outcome of process_source, checked under Spec *)

\* The save of a call in which at least one attempt was made and every
\* attempt failed
SavesFullFailure ==
    /\ frame.pc = "saving"
    /\ frame'.pc = "done"
    /\ frame.total_attempts > 0
    /\ frame.failed_attempts = frame.total_attempts

\* C20: a call in which every attempt failed, at least one being made,
\* records a full failure: the stored error_count is 1 more than before the
\* call, last_success is unchanged and the result says all_attempts_failed.
C20_FullFailureAddsOne ==
    [][SavesFullFailure =>
          /\ db'[frame.obj.id].error_count = db[frame.obj.id].error_count + 1
          /\ db'[frame.obj.id].last_success = db[frame.obj.id].last_success
          /\ frame'.result.all_attempts_failed]_vars

\* A source that had succeeded once has come back from its second full
\* failure
C20_Witness ==
    /\ Returned
    /\ frame.result.all_attempts_failed
    /\ db[1].error_count = 2
    /\ db[1].last_success # None

----------------------------------------------------------------------------
(* SpecPenalty: _record_source_failure applied again and again to two      *)
(* Source instances that start from the same error_count: one is recorded  *)
(* partial failures (increment=0.5), the other full failures (increment    *)
(* 1.0)                                                                    *)

SourceAt(id, e) == [NewSource(id) EXCEPT !.error_count = e]

InitPenalty ==
    /\ now = 0
    /\ db = [s \in {1} |-> NewSource(s)]
    /\ store = {}
    /\ history = <<>>
    /\ frame = NewFrame(NewSource(1))
    /\ failed_at = [s \in {1} |-> None]
    /\ InitSchedOff
    /\ InitCmdOff
    /\ InitFetchOff
    /\ limiter = LimiterOff
    /\ InitLifeOff
    /\ \E e \in 0..MaxErrorCount :
         penalty = [pc |-> "on", partial |-> SourceAt(1, e), full |-> SourceAt(2, e),
                    partials |-> 0, fulls |-> 0]

\* await self._record_source_failure(source, message, increment=0.5)
PartialFailure ==
    /\ penalty.pc = "on"
    /\ penalty.partials < MaxFailures
    /\ penalty' = [penalty EXCEPT !.partial = record_source_failure(@, now, 1),
                                  !.partials = @ + 1]
    /\ UNCHANGED <<now, db, store, history, frame, failed_at, schedVars, cmdVars,
                   fetchVars, limiter, lifeVars>>

\* await self._record_source_failure(source, message)
FullFailure ==
    /\ penalty.pc = "on"
    /\ penalty.fulls < MaxFailures
    /\ penalty' = [penalty EXCEPT !.full = record_source_failure(@, now, 2),
                                  !.fulls = @ + 1]
    /\ UNCHANGED <<now, db, store, history, frame, failed_at, schedVars, cmdVars,
                   fetchVars, limiter, lifeVars>>

NextPenalty == PartialFailure \/ FullFailure

SpecPenalty == InitPenalty /\ [][NextPenalty]_vars

\* C21: from the same error_count, k partial failures in a row leave a
\* smaller error_count than k full failures in a row, for every k >= 2.
C21_PartialPenalisedLess ==
    penalty.pc = "on" /\ penalty.partials = penalty.fulls /\ penalty.fulls >= 2
        => penalty.partial.error_count < penalty.full.error_count

\* The call has returned; its feed had entries, none of them was in the
\* store when its turn came, and _process_entry gave a content for every
\* one: every entry was fetched with success
EveryFetchSucceeded ==
    /\ Returned
    /\ frame.entries # <<>>
    /\ frame.call.stored = {}
    /\ Len(frame.call.attempts) = Len(frame.entries)
    /\ \A k \in 1..Len(frame.call.attempts) : ~frame.call.attempts[k].failed
    /\ \A k \in 1..Len(frame.entries) : frame.entries[k] \in store

\* C22: a call on a feed of n entries not yet stored, whose fetches all
\* succeed, returns n new contents and no fetch failure, and leaves the
\* source with error_count 0 and last_success at the time of the call.
C22_AllSucceedResetsSource ==
    EveryFetchSucceeded =>
        /\ Len(frame.result.new_content) = Len(frame.entries)
        /\ frame.result.fetch_failures = 0
        /\ ~frame.result.all_attempts_failed
        /\ frame.result.error = None
        /\ db[frame.obj.id].error_count = 0
        /\ db[frame.obj.id].last_success = frame.call.at

\* Two entries fetched with success by a source that had failures recorded
\* and no success before
C22_Witness ==
    /\ EveryFetchSucceeded
    /\ Len(frame.entries) = 2
    /\ failed_at[1] # None
    /\ frame.call.at # Some(0)

\* C23: every call that is not a backoff skip leaves the source, instance
\* and row, with last_checked at the time of the call, whether the feed could
\* not be fetched, the entries could not be built, or the loop ended in a full
\* failure, a partial failure or a success.
C23_LastCheckedAlwaysStamped ==
    Returned /\ frame.call.feed_fetched =>
        /\ frame.obj.last_checked = frame.call.at
        /\ db[frame.obj.id].last_checked = frame.call.at

\* A call made after the clock moved met an unexpected exception and returned
C23_Witness ==
    /\ Returned
    /\ frame.call.feed_fetched
    /\ frame.result.error = Some("exception")
    /\ frame.call.at = Some(now)
    /\ now > 0
    /\ db[1].last_checked = Some(now)

----------------------------------------------------------------------------
(* SpecArchive: sources/fetching/strategies/archive.py, WaybackMachine.    *)
(* Tasks of one event loop call get_archived_content on the one            *)
(* WaybackMachine of the ArchiveStrategy.  Each call goes through          *)
(* _rate_limit and sends the availability request, and, when a snapshot is *)
(* found, goes through _rate_limit again and sends the snapshot request.   *)
(* limiter.clock is loop.time() in ticks; code that does not await takes   *)
(* no time.  A caller's pc is                                              *)
(*   "idle"     get_archived_content not called yet                        *)
(*   "wait"     in _rate_limit, waiting for the lock                       *)
(*   "sleep"    in _rate_limit, holding the lock, in asyncio.sleep         *)
(*   "request"  client.get sent, awaiting the response                     *)
(*   "done"     get_archived_content returned                              *)

ArchiveCallers == 1..NumArchive

RateTicks == RATE_LIMIT * TicksPerSecond

NewCaller == [pc |-> "idle", now |-> 0, wake |-> 0, requests |-> 0]

\* asyncio.Lock.release: the lock goes to the first waiter, if any
lock_release(l) ==
    IF l.waiters = <<>> THEN [l EXCEPT !.holder = 0]
    ELSE [l EXCEPT !.holder = Head(l.waiters), !.waiters = Tail(l.waiters)]

\* _rate_limit has returned to caller c, which sends its request
send_request(l, c) ==
    [l EXCEPT !.sent = Append(@, l.clock),
              !.callers[c].pc = "request",
              !.callers[c].requests = @ + 1]

\* _rate_limit from the moment caller c has the lock to its sleep, or, when
\* it need not sleep, through to the request
rate_limit_locked(l, c) ==
    LET t == l.clock
    IN  IF t - l.last_request < RateTicks
        THEN [l EXCEPT !.callers[c].pc = "sleep",
                       !.callers[c].now = t,
                       !.callers[c].wake = t + (RateTicks - (t - l.last_request))]
        ELSE send_request(lock_release([l EXCEPT !.last_request = t]), c)

\* _rate_limit after the sleep: _last_request = now, with the now read
\* before the sleep
rate_limit_woken(l, c) ==
    send_request(lock_release([l EXCEPT !.last_request = l.callers[c].now]), c)

\* await self._rate_limit(): asyncio.Lock.acquire takes a free lock at once
rate_limit(l, c) ==
    IF l.holder = 0 /\ l.waiters = <<>>
    THEN rate_limit_locked([l EXCEPT !.holder = c], c)
    ELSE [l EXCEPT !.waiters = Append(@, c), !.callers[c].pc = "wait"]

\* WaybackMachine(): _last_request = 0, a free lock.  The loop's clock is
\* monotonic time, past RATE_LIMIT when the first call is made.
InitArchive ==
    /\ now = 0
    /\ db = [s \in {1} |-> NewSource(s)]
    /\ store = {}
    /\ history = <<>>
    /\ frame = NewFrame(NewSource(1))
    /\ failed_at = [s \in {1} |-> None]
    /\ InitSchedOff
    /\ InitCmdOff
    /\ InitFetchOff
    /\ penalty = NoPenalty
    /\ InitLifeOff
    /\ limiter = [pc |-> "on", clock |-> RateTicks, last_request |-> 0, holder |-> 0,
                  waiters |-> <<>>, callers |-> [c \in ArchiveCallers |-> NewCaller],
                  sent |-> <<>>]

\* A task calls archive.get_archived_content(url, client, config)
ArchiveCall(c) ==
    /\ limiter.pc = "on"
    /\ limiter.callers[c].pc = "idle"
    /\ limiter' = rate_limit(limiter, c)
    /\ UNCHANGED <<now, db, store, history, frame, failed_at, schedVars, cmdVars,
                   fetchVars, penalty, lifeVars>>

\* A waiter is given the lock
ArchiveLockAcquired(c) ==
    /\ limiter.pc = "on"
    /\ limiter.callers[c].pc = "wait"
    /\ limiter.holder = c
    /\ limiter' = rate_limit_locked(limiter, c)
    /\ UNCHANGED <<now, db, store, history, frame, failed_at, schedVars, cmdVars,
                   fetchVars, penalty, lifeVars>>

\* asyncio.sleep returns
ArchiveWoken(c) ==
    /\ limiter.pc = "on"
    /\ limiter.callers[c].pc = "sleep"
    /\ limiter.callers[c].wake <= limiter.clock
    /\ limiter' = rate_limit_woken(limiter, c)
    /\ UNCHANGED <<now, db, store, history, frame, failed_at, schedVars, cmdVars,
                   fetchVars, penalty, lifeVars>>

\* client.get returns: the availability answer names a snapshot (the call
\* goes on to fetch it) or not, or the snapshot has come
ArchiveResponse(c) ==
    /\ limiter.pc = "on"
    /\ limiter.callers[c].pc = "request"
    /\ \E snapshot \in BOOLEAN :
         limiter' = IF limiter.callers[c].requests = 1 /\ snapshot
                    THEN rate_limit(limiter, c)
                    ELSE [limiter EXCEPT !.callers[c].pc = "done"]
    /\ UNCHANGED <<now, db, store, history, frame, failed_at, schedVars, cmdVars,
                   fetchVars, penalty, lifeVars>>

\* A task can run now
ArchiveReady ==
    \E c \in ArchiveCallers :
        \/ limiter.callers[c].pc = "sleep" /\ limiter.callers[c].wake <= limiter.clock
        \/ limiter.callers[c].pc = "wait" /\ limiter.holder = c

\* The clock moves on while every task is waiting
ArchiveTick ==
    /\ limiter.pc = "on"
    /\ ~ArchiveReady
    /\ limiter.clock < RateTicks + MaxClock
    /\ limiter' = [limiter EXCEPT !.clock = @ + 1]
    /\ UNCHANGED <<now, db, store, history, frame, failed_at, schedVars, cmdVars,
                   fetchVars, penalty, lifeVars>>

NextArchive ==
    \/ \E c \in ArchiveCallers :
          ArchiveCall(c) \/ ArchiveLockAcquired(c) \/ ArchiveWoken(c) \/ ArchiveResponse(c)
    \/ ArchiveTick

SpecArchive == InitArchive /\ [][NextArchive]_vars

\* C24: any two consecutive requests sent to the archive start at least
\* RATE_LIMIT apart, whoever sends them and whenever the callers arrive.
C24_RequestsOneSecondApart ==
    limiter.pc = "on" =>
        \A k \in 2..Len(limiter.sent) :
            limiter.sent[k] - limiter.sent[k - 1] >= RateTicks

----------------------------------------------------------------------------
(* Claims about exceptions in a feed check, checked under SpecSched *)

\* The ids of the sources the query of the running check yielded
DueIds == [k \in 1..Len(due_sources(sched.rows, now)) |-> due_sources(sched.rows, now)[k].id]

\* process_source raised for source s in the check that has just ended
RaisedFor(s) ==
    /\ s \in broken
    /\ \E k \in 1..Len(sched.dispatched) : sched.dispatched[k] = s
    /\ sched.rows[s].error_count < FAILURE_THRESHOLD

\* C25: an exception raised while one source is processed does not abort the
\* feed check: when the check ends every source its query yielded has been
\* handed to process_source, once and in order, and while it runs the
\* sources handed over and the sources still queued make up the query's
\* yield.
C25_ExceptionNeverAbortsBatch ==
    /\ sched.pc = "idle" => sched.dispatched = DueIds
    /\ sched.pc = "loop" =>
          sched.dispatched \o [k \in 1..Len(sched.queue) |-> sched.queue[k].id] = DueIds
    /\ sched.pc = "call" =>
          sched.dispatched \o [k \in 1..Len(sched.queue) - 1 |-> sched.queue[k + 1].id] = DueIds

\* C25 witness: a check has ended in which process_source raised for the
\* first source and the second was processed and stamped all the same
C25_Witness ==
    /\ sched.pc = "idle"
    /\ sched.dispatched = <<1, 2>>
    /\ RaisedFor(1)
    /\ frame.pc = "done"
    /\ frame.obj.id = 2
    /\ db[2].last_checked = Some(now)
    /\ db[1] = sched.rows[1]

----------------------------------------------------------------------------
(* SpecCycle: one feed check of the ContentScheduler, started at minute    *)
(* CycleTime on rows of every kind: active or not, RSS or not, never       *)
(* checked or last checked around DUE_MINUTES ago, in backoff or not.      *)

CycleRows(id) ==
    {[NewSource(id) EXCEPT !.active = a, !.source_type = ty,
                           !.last_checked = lc, !.error_count = e] :
        a \in BOOLEAN, ty \in {"rss", "web"},
        lc \in {None} \cup {Some(t) : t \in (CycleTime - DUE_MINUTES - 1)..(CycleTime - DUE_MINUTES + 1)},
        e \in {0, FAILURE_THRESHOLD}}

InitCycle ==
    /\ now = CycleTime
    /\ db \in {rows \in [SchedSources -> UNION {CycleRows(s) : s \in SchedSources}] :
                  \A s \in SchedSources : rows[s].id = s}
    /\ store = {}
    /\ history = <<>>
    /\ frame = NewFrame(NewSource(1))
    /\ failed_at = [s \in SchedSources |-> None]
    /\ sched = [pc |-> "start", queue |-> <<>>, rows |-> <<>>, dispatched |-> <<>>]
    /\ slow = {}
    /\ broken = {}
    /\ InitCmdOff
    /\ InitFetchOff
    /\ InitAuxOff

NextCycle ==
    \/ SchedStart \/ SchedProcess \/ SchedUpdate \/ SchedCycleEnd
    \/ FeedFetched \/ EntryProcessed \/ Saved

SpecCycle == InitCycle /\ [][NextCycle]_vars

\* How many times the running check has handed source s to process_source
Dispatches(s) == Cardinality({k \in 1..Len(sched.dispatched) : sched.dispatched[k] = s})

----------------------------------------------------------------------------
(* SpecValidate: sources/fetching/types.py, ContentValidation.validate,    *)
(* applied once to a content drawn for a validation drawn.  A content is   *)
(* None or a string, known by its length and by what the searches of the   *)
(* blocked and of the required patterns do on it: "none" (no pattern       *)
(* matches), "match" (one matches) or "raise" (a search raises before any  *)
(* pattern matched).                                                       *)

\* ContentValidation(): the defaults, a max_length below and a min_length
\* above SUBSTANTIAL_LENGTH
Validations ==
    {[min_length |-> min_length, max_length |-> max_length],
     [min_length |-> min_length, max_length |-> SUBSTANTIAL_LENGTH \div 2],
     [min_length |-> SUBSTANTIAL_LENGTH + min_length, max_length |-> max_length]}

ContentLengths(v) ==
    {0, 1, v.min_length - 1, v.min_length, v.min_length + 1,
     SUBSTANTIAL_LENGTH, SUBSTANTIAL_LENGTH + 1,
     v.max_length - 1, v.max_length, v.max_length + 1}

Searches == {"none", "match", "raise"}

Contents(v) ==
    {None} \cup {Some([length |-> n, blocked |-> b, required |-> r]) :
                    n \in ContentLengths(v), b \in Searches, r \in Searches}

\* The body of validate's try with the required patterns searched first
validate_body_required_first(v, content) ==
    IF content = None \/ content[1].length = 0 THEN "EMPTY"
    ELSE LET c == content[1]
         IN  IF c.length < v.min_length THEN "EMPTY"
             ELSE IF c.length > v.max_length THEN "PARTIAL"
             ELSE IF c.required = "raise" THEN "RAISE"
             ELSE IF c.required = "match" THEN "FULL"
             ELSE IF c.blocked = "raise" THEN "RAISE"
             ELSE IF c.blocked = "match" THEN "BLOCKED"
             ELSE IF c.length > SUBSTANTIAL_LENGTH THEN "PARTIAL"
             ELSE "EMPTY"

\* The body of validate's try with the patterns searched before the lengths
\* are looked at
validate_body_patterns_first(v, content) ==
    IF content = None \/ content[1].length = 0 THEN "EMPTY"
    ELSE LET c == content[1]
         IN  IF c.blocked = "raise" THEN "RAISE"
             ELSE IF c.blocked = "match" THEN "BLOCKED"
             ELSE IF c.required = "raise" THEN "RAISE"
             ELSE IF c.required = "match" THEN "FULL"
             ELSE IF c.length < v.min_length THEN "EMPTY"
             ELSE IF c.length > v.max_length THEN "PARTIAL"
             ELSE IF c.length > SUBSTANTIAL_LENGTH THEN "PARTIAL"
             ELSE "EMPTY"

\* The body of validate's try: the quality returned, or "RAISE"
validate_body(v, content) ==
    IF content = None \/ content[1].length = 0 THEN "EMPTY"
    ELSE LET c == content[1]
         IN  IF c.length < v.min_length THEN "EMPTY"
             ELSE IF c.length > v.max_length THEN "PARTIAL"
             ELSE IF c.blocked = "raise" THEN "RAISE"
             ELSE IF c.blocked = "match" THEN "BLOCKED"
             ELSE IF c.required = "raise" THEN "RAISE"
             ELSE IF c.required = "match" THEN "FULL"
             ELSE IF c.length > SUBSTANTIAL_LENGTH THEN "PARTIAL"
             ELSE "EMPTY"

\* ContentValidation.validate: the handler turns an exception of the body
\* into PARTIAL if content else EMPTY
validate(v, content) ==
    IF validate_body(v, content) = "RAISE"
    THEN IF content = None \/ content[1].length = 0 THEN "EMPTY" ELSE "PARTIAL"
    ELSE validate_body(v, content)

InitValidate ==
    /\ now = 0
    /\ db = [s \in {1} |-> NewSource(s)]
    /\ store = {}
    /\ history = <<>>
    /\ frame = NewFrame(NewSource(1))
    /\ failed_at = [s \in {1} |-> None]
    /\ InitSchedOff
    /\ InitCmdOff
    /\ \E v \in Validations : \E content \in Contents(v) :
           fetch = [op |-> "validate", pc |-> "input", validation |-> v,
                    content |-> content, quality |-> None]
    /\ fetchers = <<>>
    /\ calls = <<>>
    /\ InitAuxOff

\* validation.validate(content)
Validate ==
    /\ fetch.op = "validate"
    /\ fetch.pc = "input"
    /\ fetch' = [fetch EXCEPT !.pc = "done",
                              !.quality = Some(validate(fetch.validation, fetch.content))]
    /\ UNCHANGED <<now, db, store, history, frame, failed_at, schedVars, cmdVars,
                   fetchers, calls, auxVars, lifeVars>>

NextValidate == Validate

SpecValidate == InitValidate /\ [][NextValidate]_vars

\* validate has returned for a content that is a non-empty string
Validated == fetch.op = "validate" /\ fetch.pc = "done"

HasText == fetch.content # None /\ fetch.content[1].length > 0

\* No search of a pattern raises on the content
Searchable ==
    /\ fetch.content[1].blocked # "raise"
    /\ fetch.content[1].blocked = "none" => fetch.content[1].required # "raise"

\* C27: validate returns a quality for every content and never raises; an
\* absent or empty content is EMPTY, a content shorter than min_length is
\* EMPTY, and for a content the patterns can be searched on the quality is
\* that of the steps taken in order: longer than max_length, PARTIAL; a
\* blocked pattern matches, BLOCKED; a required pattern matches, FULL; longer
\* than 1000, PARTIAL; otherwise EMPTY.
C27_ValidateFollowsTheSteps ==
    Validated =>
        LET q == fetch.quality[1]
            v == fetch.validation
            c == fetch.content[1]
        IN  /\ q \in ContentQuality
            /\ ~HasText => q = "EMPTY"
            /\ HasText /\ c.length < v.min_length => q = "EMPTY"
            /\ HasText /\ c.length >= v.min_length /\ c.length > v.max_length =>
                  q = "PARTIAL"
            /\ HasText /\ c.length >= v.min_length /\ c.length <= v.max_length /\ Searchable =>
                  q = CASE c.blocked = "match" -> "BLOCKED"
                        [] c.blocked = "none" /\ c.required = "match" -> "FULL"
                        [] c.blocked = "none" /\ c.required = "none"
                             /\ c.length > SUBSTANTIAL_LENGTH -> "PARTIAL"
                        [] OTHER -> "EMPTY"

\* C27 witness: a content shorter than min_length that a blocked pattern
\* matches has been validated EMPTY
C27_Witness ==
    /\ Validated
    /\ HasText
    /\ fetch.content[1].length = fetch.validation.min_length - 1
    /\ fetch.content[1].blocked = "match"
    /\ fetch.quality = Some("EMPTY")

\* The content matches a blocked pattern and a required pattern
MatchesBoth ==
    /\ HasText
    /\ fetch.content[1].blocked = "match"
    /\ fetch.content[1].required = "match"

\* C28 as stated: a content that matches both a blocked and a required
\* pattern is validated BLOCKED.
C28_BothMatchIsBlocked ==
    (Validated /\ MatchesBoth) => fetch.quality = Some("BLOCKED")

\* C28 amended: a content that matches both a blocked and a required pattern
\* is never validated FULL, and it is validated BLOCKED when its length is
\* from min_length to max_length; shorter it is EMPTY, longer it is PARTIAL.
C28_BothMatchIsNeverFull ==
    (Validated /\ MatchesBoth) =>
        LET n == fetch.content[1].length
            v == fetch.validation
        IN  /\ fetch.quality # Some("FULL")
            /\ n >= v.min_length /\ n <= v.max_length => fetch.quality = Some("BLOCKED")
            /\ n < v.min_length => fetch.quality = Some("EMPTY")
            /\ n >= v.min_length /\ n > v.max_length => fetch.quality = Some("PARTIAL")

\* C28 witness: a content of a length within the limits that matches both
\* has been validated BLOCKED
C28_Witness ==
    /\ Validated
    /\ MatchesBoth
    /\ fetch.content[1].length = SUBSTANTIAL_LENGTH
    /\ fetch.validation.max_length = max_length
    /\ fetch.quality = Some("BLOCKED")

----------------------------------------------------------------------------
(* SpecStrategy: sources/fetching/strategies, the fetch of each of the     *)
(* three strategies applied once to a configuration and to what the        *)
(* network does.  A response is a record: kind says what came of the       *)
(* request, page is the text received when kind is "page".                 *)

\* FetcherConfig(...): the default retry settings and others, the default
\* validation
FetcherConfigs ==
    {[max_retries |-> m, retry_delay |-> d,
      validation |-> [min_length |-> min_length, max_length |-> max_length]] :
        m \in {max_retries - 1, max_retries, max_retries + 1},
        d \in {retry_delay, retry_delay + 1}}

\* Texts a server may send: too short or substantial, with or without a
\* match of the blocked and of the required patterns
Pages ==
    {[length |-> n, blocked |-> b, required |-> r] :
        n \in {min_length - 1, SUBSTANTIAL_LENGTH + 1},
        b \in {"none", "match"}, r \in {"none", "match"}}

\* What the network does during one fetch of a strategy.  SIMPLE: a
\* response per request, transient errors first; BROWSER and ARCHIVE: what
\* the page load or the archive lookup comes to.
Networks(strategy) ==
    LET Kind(ks) == {[kind |-> k, page |-> None] : k \in ks}
        Page == {[kind |-> "page", page |-> Some(c)] : c \in Pages}
        Transient == Kind({"read_error", "protocol_error"})
        Last == Kind({"status_error", "timeout", "empty"}) \cup Page
    IN  CASE strategy = "SIMPLE" ->
               {t \o <<l>> : t \in {<<>>} \cup SeqsUpTo(Transient, SIMPLE_ATTEMPTS - 1),
                             l \in Last}
               \cup [1..SIMPLE_ATTEMPTS -> Transient]
          [] strategy = "BROWSER" ->
               {<<l>> : l \in Kind({"raise", "no_response", "empty"}) \cup Page}
          [] OTHER ->
               {<<l>> : l \in Kind({"raise", "none", "empty"}) \cup Page}

\* validate_content and create_result for a text received: the quality the
\* validation gives, a text validated EMPTY being the outcome SHORT
page_result(config, c, strategy) ==
    LET q == validate(config.validation, Some(c))
    IN  create_result(IF q = "EMPTY" THEN "SHORT" ELSE q, strategy)

\* SimpleHttpStrategy.fetch: the result, the requests made and the sleeps
\* between them.  F[a] is the fetch from turn a of the loop on.
simple_fetch(config, net) ==
    LET F[a \in 0..(SIMPLE_ATTEMPTS - 1)] ==
            LET response == net[a + 1]
            IN  IF response.kind \in {"read_error", "protocol_error"}
                THEN IF a = SIMPLE_ATTEMPTS - 1
                     THEN [result |-> create_result("ERROR", "SIMPLE"),
                           requests |-> a + 1, sleeps |-> <<>>]
                     ELSE [F[a + 1] EXCEPT !.sleeps = <<SIMPLE_SLEEP * (a + 1)>> \o @]
                ELSE [result |-> IF response.kind = "page"
                                 THEN page_result(config, response.page[1], "SIMPLE")
                                 ELSE create_result("ERROR", "SIMPLE"),
                      requests |-> a + 1, sleeps |-> <<>>]
    IN  F[0]

\* BrowserStrategy.fetch
browser_fetch(config, net) ==
    [result |-> IF net[1].kind = "page"
                THEN page_result(config, net[1].page[1], "BROWSER")
                ELSE create_result("ERROR", "BROWSER"),
     requests |-> 1, sleeps |-> <<>>]

\* ArchiveStrategy.fetch: an empty snapshot is content, validated EMPTY
archive_fetch(config, net) ==
    [result |-> CASE net[1].kind = "page" -> page_result(config, net[1].page[1], "ARCHIVE")
                  [] net[1].kind = "empty" -> create_result("SHORT", "ARCHIVE")
                  [] OTHER -> create_result("ERROR", "ARCHIVE"),
     requests |-> 1, sleeps |-> <<>>]

InitStrategy ==
    /\ now = 0
    /\ db = [s \in {1} |-> NewSource(s)]
    /\ store = {}
    /\ history = <<>>
    /\ frame = NewFrame(NewSource(1))
    /\ failed_at = [s \in {1} |-> None]
    /\ InitSchedOff
    /\ InitCmdOff
    /\ \E strategy \in Strategies, config \in FetcherConfigs :
         \E net \in Networks(strategy) :
           fetch = [op |-> "strategy", pc |-> "input", strategy |-> strategy,
                    config |-> config, net |-> net, out |-> None]
    /\ fetchers = <<>>
    /\ calls = <<>>
    /\ InitAuxOff

\* strategy.fetch(url, config) of the SimpleHttpStrategy
SimpleFetch ==
    /\ fetch.op = "strategy" /\ fetch.pc = "input" /\ fetch.strategy = "SIMPLE"
    /\ fetch' = [fetch EXCEPT !.pc = "done",
                              !.out = Some(simple_fetch(fetch.config, fetch.net))]
    /\ UNCHANGED <<now, db, store, history, frame, failed_at, schedVars, cmdVars,
                   fetchers, calls, auxVars, lifeVars>>

\* strategy.fetch(url, config) of the BrowserStrategy
BrowserFetch ==
    /\ fetch.op = "strategy" /\ fetch.pc = "input" /\ fetch.strategy = "BROWSER"
    /\ fetch' = [fetch EXCEPT !.pc = "done",
                              !.out = Some(browser_fetch(fetch.config, fetch.net))]
    /\ UNCHANGED <<now, db, store, history, frame, failed_at, schedVars, cmdVars,
                   fetchers, calls, auxVars, lifeVars>>

\* strategy.fetch(url, config) of the ArchiveStrategy
ArchiveFetch ==
    /\ fetch.op = "strategy" /\ fetch.pc = "input" /\ fetch.strategy = "ARCHIVE"
    /\ fetch' = [fetch EXCEPT !.pc = "done",
                              !.out = Some(archive_fetch(fetch.config, fetch.net))]
    /\ UNCHANGED <<now, db, store, history, frame, failed_at, schedVars, cmdVars,
                   fetchers, calls, auxVars, lifeVars>>

NextStrategy == SimpleFetch \/ BrowserFetch \/ ArchiveFetch

SpecStrategy == InitStrategy /\ [][NextStrategy]_vars

\* A strategy's fetch has returned
Fetched == fetch.op = "strategy" /\ fetch.pc = "done"

\* C29: the fetch of a strategy returns a FetchResult whatever the network
\* does, and a result that is not a success has its error set.
C29_NonSuccessCarriesError ==
    Fetched =>
        /\ fetch.out # None
        /\ ~success(fetch.out[1].result) => fetch.out[1].result.error # None

\* C30: the Simple-HTTP fetch makes at most config.max_retries requests,
\* sleeps config.retry_delay times the attempt number between two of them,
\* and a fetch whose requests all met a transient error does not succeed; a
\* status error on the first request ends the fetch after that request.
C30_RetriesFollowConfig ==
    (Fetched /\ fetch.strategy = "SIMPLE") =>
        LET out == fetch.out[1]
        IN  /\ out.requests <= fetch.config.max_retries
            /\ \A k \in 1..Len(out.sleeps) : out.sleeps[k] = fetch.config.retry_delay * k
            /\ fetch.net[Len(fetch.net)].kind \in {"read_error", "protocol_error"}
                  => ~success(out.result)
            /\ fetch.net[1].kind = "status_error"
                  => out.requests = 1 /\ ~success(out.result)

----------------------------------------------------------------------------
(* SpecCleanup: sources/fetching/fetcher.py, SmartContentFetcher.cleanup.  *)
(* cleanup.open says which strategies hold an open resource (the HTTP      *)
(* client of SIMPLE and of ARCHIVE, the launched browser of BROWSER),      *)
(* cleanup.fails which resources raise when they are closed.  cleanup.pc   *)
(*   "idle"    no call of cleanup is running                               *)
(*   "loop"    cleanup is about to await the cleanup of strategy number i  *)
(*   "raised"  an exception has left cleanup                               *)

\* strategy.cleanup() of strategy s: "raise", or the strategy's resource
\* open or not after it.  SimpleHttpStrategy closes a client that is not
\* closed, BrowserStrategy swallows what browser.close() raises and drops
\* the browser, ArchiveStrategy closes its client in any case.
strategy_cleanup(s, open, fails) ==
    CASE s = "SIMPLE" -> IF open /\ s \in fails THEN "raise" ELSE "closed"
      [] s = "BROWSER" -> "closed"
      [] OTHER -> IF s \in fails THEN "raise" ELSE "closed"

\* One turn of the loop of SmartContentFetcher.cleanup
cleanup_turn(c) ==
    LET s == FetchStrategy[c.i]
        r == strategy_cleanup(s, c.open[s], c.fails)
    IN  IF r = "raise"
        THEN [c EXCEPT !.pc = "raised", !.called = Append(@, s)]
        ELSE [c EXCEPT !.i = @ + 1, !.called = Append(@, s), !.open[s] = FALSE]

InitCleanup ==
    /\ now = 0
    /\ db = [s \in {1} |-> NewSource(s)]
    /\ store = {}
    /\ history = <<>>
    /\ frame = NewFrame(NewSource(1))
    /\ failed_at = [s \in {1} |-> None]
    /\ InitSchedOff
    /\ InitCmdOff
    /\ InitFetchOff
    /\ penalty = NoPenalty
    /\ limiter = LimiterOff
    /\ \E open \in [Strategies -> BOOLEAN], fails \in SUBSET Strategies :
         cleanup = [pc |-> "idle", i |-> 1, open |-> open, fails |-> fails,
                    called |-> <<>>, calls |-> 0]
    /\ closed = FALSE
    /\ life = [pc |-> "off"]
    /\ pending = [pc |-> "off"]
    /\ runs = [pc |-> "off"]
    /\ procs = [pc |-> "off"]

\* await fetcher.cleanup()
CleanupCall ==
    /\ cleanup.pc \in {"idle", "raised"}
    /\ cleanup.calls < MaxCleanups
    /\ cleanup' = [cleanup EXCEPT !.pc = "loop", !.i = 1, !.called = <<>>,
                                  !.calls = @ + 1]
    /\ UNCHANGED <<now, db, store, history, frame, failed_at, schedVars, cmdVars,
                   fetchVars, auxVars, closed, life, pending, runs, procs>>

\* await strategy.cleanup() for the next strategy
CleanupStrategy ==
    /\ cleanup.pc = "loop"
    /\ cleanup.i <= Len(FetchStrategy)
    /\ cleanup' = cleanup_turn(cleanup)
    /\ UNCHANGED <<now, db, store, history, frame, failed_at, schedVars, cmdVars,
                   fetchVars, auxVars, closed, life, pending, runs, procs>>

\* The loop is exhausted: cleanup returns
CleanupReturn ==
    /\ cleanup.pc = "loop"
    /\ cleanup.i > Len(FetchStrategy)
    /\ cleanup' = [cleanup EXCEPT !.pc = "idle"]
    /\ UNCHANGED <<now, db, store, history, frame, failed_at, schedVars, cmdVars,
                   fetchVars, auxVars, closed, life, pending, runs, procs>>

NextCleanup == CleanupCall \/ CleanupStrategy \/ CleanupReturn

SpecCleanup == InitCleanup /\ [][NextCleanup]_vars

\* C31: when a call of SmartContentFetcher.cleanup is over, by return or by
\* exception, the cleanup of every strategy has been called in it.
C31_EveryStrategyCleanedUp ==
    (cleanup.pc \in {"idle", "raised"} /\ cleanup.calls > 0) =>
        {cleanup.called[k] : k \in 1..Len(cleanup.called)} = Strategies

----------------------------------------------------------------------------
(* Claims about the persisted error_count, checked under SpecCmd *)

\* The step is the save of process_single_source in task c, made after
\* process_source returned and neither timeout nor cancellation intervened
WrapperSaves(c) ==
    /\ tasks[c].pc = "wsave"
    /\ tasks'[c].pc = "done"
    /\ ~tasks'[c].timed_out
    /\ db'[c] = tasks[c].fr.obj

\* C32: the persisted error_count of a source is a non-negative integer, and
\* a step lowers it only by resetting it to 0 in a processing of the source
\* that process_source classified as a success.
C32_ErrorCountOnlyResetBySuccess ==
    [][\A c \in CmdSources :
          /\ db'[c].error_count \in Nat
          /\ db'[c].error_count < db[c].error_count =>
                /\ db'[c].error_count = 0
                /\ tasks[c].fr.call.recorded = "success"]_vars

\* C36: when process_single_source has saved the source, the persisted
\* error_count is what the classification of process_source makes it: one
\* more than before for a recorded failure, 0 for a success, unchanged for a
\* backoff skip.
C36_WrapperKeepsClassification ==
    [][\A c \in CmdSources :
          WrapperSaves(c) =>
              db'[c].error_count =
                  CASE tasks[c].fr.call.recorded = "failure" ->
                          tasks[c].source0.error_count + 1
                    [] tasks[c].fr.call.recorded = "success" -> 0
                    [] OTHER -> tasks[c].source0.error_count]_vars

----------------------------------------------------------------------------
(* The closed processor: direct calls of process_source before and after   *)
(* FeedProcessor.aclose                                                    *)

\* What _fetch_feed returns once the client is closed: client.get raises
\* RuntimeError, the except Exception clause logs it and returns None
fetch_feed_closed == [ok |-> FALSE, raises |-> FALSE, entries |-> <<>>]

InitClosed ==
    /\ now = 0
    /\ db = [s \in {1} |-> NewSource(s)]
    /\ store = {}
    /\ history = <<>>
    /\ frame = NewFrame(NewSource(1))
    /\ failed_at = [s \in {1} |-> None]
    /\ InitSchedOff
    /\ InitCmdOff
    /\ InitFetchOff
    /\ penalty = NoPenalty
    /\ limiter = LimiterOff
    /\ cleanup = [pc |-> "off"]
    /\ closed = FALSE
    /\ life = [pc |-> "off"]
    /\ pending = [pc |-> "off"]
    /\ runs = [pc |-> "off"]
    /\ procs = [pc |-> "off"]

\* await processor.aclose(), between two calls of process_source
Aclose ==
    /\ ~closed
    /\ frame.pc = "done"
    /\ closed' = TRUE
    /\ UNCHANGED <<now, db, store, history, frame, failed_at, schedVars, cmdVars,
                   fetchVars, auxVars, cleanup, life, pending, runs, procs>>

\* _fetch_feed returns, the client being open
OpenFeedFetched == ~closed /\ FeedFetched

\* _fetch_feed returns, the client being closed
ClosedFeedFetched ==
    /\ closed
    /\ frame.pc = "feed"
    /\ frame' = ps_feed(frame, now, fetch_feed_closed)
    /\ UNCHANGED <<now, db, store, history, failed_at, schedVars, cmdVars,
                   fetchVars, auxVars, lifeVars>>

NextClosed ==
    \/ Advance \/ Call \/ OpenFeedFetched \/ ClosedFeedFetched
    \/ EntryProcessed \/ Saved \/ Aclose

SpecClosed == InitClosed /\ [][NextClosed]_vars

\* C33: once the processor is closed, a call of process_source is rejected
\* and not carried out: no step of it changes a source's row or the stored
\* content.
C33_ClosedProcessorChangesNothing ==
    [][closed => (db' = db /\ store' = store)]_vars

----------------------------------------------------------------------------
(* The lifecycle of the ContentScheduler: a sequence of start and stop     *)
(* calls on one scheduler.                                                 *)
(*   life.running     self._running                                        *)
(*   life.underlying  the AsyncIOScheduler: "stopped", "running", or       *)
(*                    "raised" once start or shutdown was called in the    *)
(*                    wrong state (the library raises)                     *)
(*   life.jobs        the names given to add_job so far                    *)
(*   life.starts, life.shutdowns, life.closes   the calls made of          *)
(*                    scheduler.start, scheduler.shutdown, processor.aclose*)
(*   life.log         the start and stop calls made so far                 *)

MaxLifeCalls == 6

\* ContentScheduler.start up to its await of check_feeds, without the test
\* of _running
scheduler_start_unguarded(l) ==
    [l EXCEPT !.pc = "checking",
              !.underlying = IF @ = "stopped" THEN "running" ELSE "raised",
              !.starts = @ + 1,
              !.running = TRUE,
              !.jobs = @ \o <<"feed_check", "prediction_process">>,
              !.log = Append(@, "start")]

\* ContentScheduler.start up to its await of check_feeds, or to its return
\* when the scheduler runs already
scheduler_start(l) ==
    IF l.running
    THEN [l EXCEPT !.log = Append(@, "start")]
    ELSE [l EXCEPT !.pc = "checking",
                   !.underlying = IF @ = "stopped" THEN "running" ELSE "raised",
                   !.starts = @ + 1,
                   !.running = TRUE,
                   !.jobs = @ \o <<"feed_check", "prediction_process">>,
                   !.log = Append(@, "start")]

\* ContentScheduler.stop up to its await of processor.aclose, or to its
\* return when the scheduler does not run
scheduler_stop(l) ==
    IF ~l.running
    THEN [l EXCEPT !.log = Append(@, "stop")]
    ELSE [l EXCEPT !.pc = "closing",
                   !.underlying = IF @ = "running" THEN "stopped" ELSE "raised",
                   !.shutdowns = @ + 1,
                   !.log = Append(@, "stop")]

\* ContentScheduler.stop from the return of processor.aclose
scheduler_stop_closed(l) ==
    [l EXCEPT !.pc = "idle", !.closes = @ + 1, !.running = FALSE]

InitLife ==
    /\ now = 0
    /\ db = [s \in {1} |-> NewSource(s)]
    /\ store = {}
    /\ history = <<>>
    /\ frame = NewFrame(NewSource(1))
    /\ failed_at = [s \in {1} |-> None]
    /\ InitSchedOff
    /\ InitCmdOff
    /\ InitFetchOff
    /\ penalty = NoPenalty
    /\ limiter = LimiterOff
    /\ cleanup = [pc |-> "off"]
    /\ closed = FALSE
    /\ life = [pc |-> "idle", running |-> FALSE, underlying |-> "stopped",
               jobs |-> <<>>, starts |-> 0, shutdowns |-> 0, closes |-> 0,
               log |-> <<>>]
    /\ pending = [pc |-> "off"]
    /\ runs = [pc |-> "off"]
    /\ procs = [pc |-> "off"]

\* await scheduler.start()
LifeStart ==
    /\ life.pc = "idle"
    /\ Len(life.log) < MaxLifeCalls
    /\ life' = scheduler_start(life)
    /\ UNCHANGED <<now, db, store, history, frame, failed_at, schedVars, cmdVars,
                   fetchVars, auxVars, cleanup, closed, pending, runs, procs>>

\* The initial check_feeds returns, and start with it
LifeStarted ==
    /\ life.pc = "checking"
    /\ life' = [life EXCEPT !.pc = "idle"]
    /\ UNCHANGED <<now, db, store, history, frame, failed_at, schedVars, cmdVars,
                   fetchVars, auxVars, cleanup, closed, pending, runs, procs>>

\* await scheduler.stop()
LifeStop ==
    /\ life.pc = "idle"
    /\ Len(life.log) < MaxLifeCalls
    /\ life' = scheduler_stop(life)
    /\ UNCHANGED <<now, db, store, history, frame, failed_at, schedVars, cmdVars,
                   fetchVars, auxVars, cleanup, closed, pending, runs, procs>>

\* processor.aclose returns, and stop with it
LifeStopped ==
    /\ life.pc = "closing"
    /\ life' = scheduler_stop_closed(life)
    /\ closed' = TRUE
    /\ UNCHANGED <<now, db, store, history, frame, failed_at, schedVars, cmdVars,
                   fetchVars, auxVars, cleanup, pending, runs, procs>>

NextLife == LifeStart \/ LifeStarted \/ LifeStop \/ LifeStopped

SpecLife == InitLife /\ [][NextLife]_vars

\* The calls of the log that find the scheduler in the other state: a start
\* that is the first call or follows a stop, a stop that follows a start
Effective(log, what) ==
    Cardinality({k \in 1..Len(log) :
                    /\ log[k] = what
                    /\ IF k = 1 THEN what = "start" ELSE log[k - 1] # what})

\* C34: when no start or stop call is in progress, the underlying scheduler
\* runs iff _running is true, and it never raised; it was started once per
\* start call made on a stopped scheduler and shut down once per stop call
\* made on a running one, the processor was closed as often, and the two
\* jobs were registered once per effective start: the other calls changed
\* nothing.
C34_LifecycleKeepsRunningFlag ==
    life.pc = "idle" =>
        /\ (life.underlying = "running") <=> life.running
        /\ life.underlying # "raised"
        /\ life.starts = Effective(life.log, "start")
        /\ life.shutdowns = Effective(life.log, "stop")
        /\ life.closes = life.shutdowns
        /\ life.closes > 0 => closed
        /\ Len(life.jobs) = 2 * life.starts
        /\ \A k \in 1..Len(life.jobs) :
              life.jobs[k] = IF k % 2 = 1 THEN "feed_check" ELSE "prediction_process"

\* A restarted scheduler that was then started again and stopped twice
C34_Witness ==
    /\ life.pc = "idle"
    /\ life.log = <<"start", "stop", "start", "start", "stop", "stop">>
    /\ life.starts = 2
    /\ life.shutdowns = 2
    /\ ~life.running

----------------------------------------------------------------------------
(* The pending predictions: the cache entry "pending_prediction_content",  *)
(* filled by handle_new_content in the thread that saves a Content and     *)
(* emptied by process_predictions on the event loop.                       *)
(*   pending.cache    the set stored under the key (empty: no entry)       *)
(*   pending.h        handle_new_content: its position, the id of the new  *)
(*                    content and the set it read                          *)
(*   pending.pp       process_predictions: its position and the set it read*)
(*   pending.passed   the ids given to predict_topics in a call that       *)
(*                    returned                                             *)
(*   pending.queued   the ids stored in the cache entry so far             *)
(*   pending.created, pending.runs, pending.failed   contents created, runs *)
(*                    started, runs that failed                             *)

MaxContents == 3
MaxPredictRuns == 2
PENDING_BATCH == 50

\* handle_new_content from cache.set on: the set read, with the new id, is
\* stored; a set of PENDING_BATCH ids is deleted and given to predict_topics
handle_new_content_set(p) ==
    LET ids == p.h.ids \cup {p.h.id}
    IN  IF Cardinality(ids) >= PENDING_BATCH
        THEN [p EXCEPT !.cache = {}, !.passed = @ \cup ids,
                       !.queued = @ \cup ids, !.h = [pc |-> "idle", id |-> 0, ids |-> {}]]
        ELSE [p EXCEPT !.cache = ids, !.queued = @ \cup ids,
                       !.h = [pc |-> "idle", id |-> 0, ids |-> {}]]

InitPredict ==
    /\ now = 0
    /\ db = [s \in {1} |-> NewSource(s)]
    /\ store = {}
    /\ history = <<>>
    /\ frame = NewFrame(NewSource(1))
    /\ failed_at = [s \in {1} |-> None]
    /\ InitSchedOff
    /\ InitCmdOff
    /\ InitFetchOff
    /\ penalty = NoPenalty
    /\ limiter = LimiterOff
    /\ cleanup = [pc |-> "off"]
    /\ closed = FALSE
    /\ life = [pc |-> "off"]
    /\ pending = [cache |-> {}, h |-> [pc |-> "idle", id |-> 0, ids |-> {}],
                  pp |-> [pc |-> "idle", ids |-> {}],
                  passed |-> {}, queued |-> {}, created |-> 0, runs |-> 0,
                  failed |-> 0]
    /\ runs = [pc |-> "off"]
    /\ procs = [pc |-> "off"]

\* A Content is created: post_save calls handle_new_content, which reads
\* the cache entry
ContentCreated ==
    /\ pending.h.pc = "idle"
    /\ pending.created < MaxContents
    /\ pending' = [pending EXCEPT
                      !.created = @ + 1,
                      !.h = [pc |-> "read", id |-> pending.created + 1,
                             ids |-> pending.cache]]
    /\ UNCHANGED <<now, db, store, history, frame, failed_at, schedVars, cmdVars,
                   fetchVars, auxVars, cleanup, closed, life, runs, procs>>

\* handle_new_content stores the set and returns
ContentQueued ==
    /\ pending.h.pc = "read"
    /\ pending' = handle_new_content_set(pending)
    /\ UNCHANGED <<now, db, store, history, frame, failed_at, schedVars, cmdVars,
                   fetchVars, auxVars, cleanup, closed, life, runs, procs>>

\* The job calls process_predictions, which reads the cache entry and
\* returns at once when it is empty
PredictRead ==
    /\ pending.pp.pc = "idle"
    /\ pending.runs < MaxPredictRuns
    /\ pending' = [pending EXCEPT
                      !.runs = @ + 1,
                      !.pp = IF pending.cache = {}
                             THEN [pc |-> "idle", ids |-> {}]
                             ELSE [pc |-> "calling", ids |-> pending.cache]]
    /\ UNCHANGED <<now, db, store, history, frame, failed_at, schedVars, cmdVars,
                   fetchVars, auxVars, cleanup, closed, life, runs, procs>>

\* call_command("predict_topics", content_ids=list(pending_ids)) returns
PredictCalled ==
    /\ pending.pp.pc = "calling"
    /\ pending' = [pending EXCEPT !.passed = @ \cup pending.pp.ids,
                                  !.pp.pc = "deleting"]
    /\ UNCHANGED <<now, db, store, history, frame, failed_at, schedVars, cmdVars,
                   fetchVars, auxVars, cleanup, closed, life, runs, procs>>

\* call_command raises: the exception is logged, the entry is left alone
PredictFailed ==
    /\ pending.pp.pc = "calling"
    /\ pending' = [pending EXCEPT !.failed = @ + 1,
                                  !.pp = [pc |-> "idle", ids |-> {}]]
    /\ UNCHANGED <<now, db, store, history, frame, failed_at, schedVars, cmdVars,
                   fetchVars, auxVars, cleanup, closed, life, runs, procs>>

\* cache.delete("pending_prediction_content"), and the return
PredictDeleted ==
    /\ pending.pp.pc = "deleting"
    /\ pending' = [pending EXCEPT !.cache = {}, !.pp = [pc |-> "idle", ids |-> {}]]
    /\ UNCHANGED <<now, db, store, history, frame, failed_at, schedVars, cmdVars,
                   fetchVars, auxVars, cleanup, closed, life, runs, procs>>

NextPredict ==
    \/ ContentCreated \/ ContentQueued
    \/ PredictRead \/ PredictCalled \/ PredictFailed \/ PredictDeleted

SpecPredict == InitPredict /\ [][NextPredict]_vars

\* C35: an id that was queued for prediction is still in the pending set or
\* was passed to predict_topics: no id leaves the set unpredicted.
C35_NoQueuedIdLost ==
    pending.queued \subseteq (pending.cache \cup pending.passed)

----------------------------------------------------------------------------
(* The two callers of check_feeds in the ContentScheduler: start awaits    *)
(* the initial check after it has added the interval job, and the job runs *)
(* check_feeds every CYCLE_MINUTES, one instance at a time, whether the    *)
(* initial check has returned or not.  Time is in minutes and passes while *)
(* process_source is awaited.                                              *)
(*   runs.act[a]   the activation a of check_feeds: its position ("start", *)
(*                 "loop", "call", "idle"), the instances its query        *)
(*                 yielded and are still to process, the instance its      *)
(*                 process_source call works on                            *)
(*   runs.fired    the time the job was added or last ran                  *)

NumOverlap == 2
MaxOverlapTime == 10

OverlapSources == 1..NumOverlap
Activations == {"initial", "job"}

\* check_feeds from the return of process_source on: how the call ended
\* ("skipped" for a source in backoff), the instance process_source saved,
\* and the last_checked that aupdate writes on the row
check_feeds_returned(rows, src, outcome, t) ==
    LET inst == CASE outcome = "success" -> record_source_success(src, t)
                  [] outcome = "failure" -> record_source_failure(src, t, 2)
                  [] OTHER -> src
        saved == IF outcome = "skipped" THEN rows ELSE [rows EXCEPT ![src.id] = inst]
    IN  [saved EXCEPT ![src.id].last_checked = Some(t)]

InitOverlap ==
    /\ now = 0
    /\ db = [s \in OverlapSources |-> NewSource(s)]
    /\ store = {}
    /\ history = <<>>
    /\ frame = NewFrame(NewSource(1))
    /\ failed_at = [s \in OverlapSources |-> None]
    /\ InitSchedOff
    /\ InitCmdOff
    /\ InitFetchOff
    /\ penalty = NoPenalty
    /\ limiter = LimiterOff
    /\ cleanup = [pc |-> "off"]
    /\ closed = FALSE
    /\ life = [pc |-> "off"]
    /\ pending = [pc |-> "off"]
    /\ runs = [act |-> [a \in Activations |->
                          [pc |-> IF a = "initial" THEN "start" ELSE "idle",
                           queue |-> <<>>, cur |-> None]],
               fired |-> 0]
    /\ procs = [pc |-> "off"]

\* start adds the job and awaits check_feeds, which runs its query
OverlapStart ==
    /\ runs.act["initial"].pc = "start"
    /\ runs' = [runs EXCEPT !.act["initial"].pc = "loop",
                            !.act["initial"].queue = due_sources(db, now),
                            !.fired = now]
    /\ UNCHANGED <<now, db, store, history, frame, failed_at, schedVars, cmdVars,
                   fetchVars, auxVars, cleanup, closed, life, pending, procs>>

\* The interval has elapsed and no instance of the job runs: the job calls
\* check_feeds, which runs its query
OverlapTrigger ==
    /\ runs.act["initial"].pc # "start"
    /\ runs.act["job"].pc = "idle"
    /\ now >= runs.fired + CYCLE_MINUTES
    /\ runs' = [runs EXCEPT !.act["job"].pc = "loop",
                            !.act["job"].queue = due_sources(db, now),
                            !.fired = now]
    /\ UNCHANGED <<now, db, store, history, frame, failed_at, schedVars, cmdVars,
                   fetchVars, auxVars, cleanup, closed, life, pending, procs>>

\* check_feeds takes the next source and awaits process_source(source)
OverlapProcess(a) ==
    /\ runs.act[a].pc = "loop"
    /\ runs.act[a].queue # <<>>
    /\ runs' = [runs EXCEPT !.act[a].pc = "call",
                            !.act[a].cur = Some(Head(runs.act[a].queue)),
                            !.act[a].queue = Tail(@)]
    /\ UNCHANGED <<now, db, store, history, frame, failed_at, schedVars, cmdVars,
                   fetchVars, auxVars, cleanup, closed, life, pending, procs>>

\* process_source returns and the row is updated
OverlapReturned(a) ==
    /\ runs.act[a].pc = "call"
    /\ \E outcome \in IF in_backoff(runs.act[a].cur[1], now)
                      THEN {"skipped"} ELSE {"success", "failure"} :
          db' = check_feeds_returned(db, runs.act[a].cur[1], outcome, now)
    /\ runs' = [runs EXCEPT !.act[a].pc = "loop", !.act[a].cur = None]
    /\ UNCHANGED <<now, store, history, frame, failed_at, schedVars, cmdVars,
                   fetchVars, auxVars, cleanup, closed, life, pending, procs>>

\* The async for is exhausted: check_feeds returns
OverlapEnd(a) ==
    /\ runs.act[a].pc = "loop"
    /\ runs.act[a].queue = <<>>
    /\ runs' = [runs EXCEPT !.act[a].pc = "idle"]
    /\ UNCHANGED <<now, db, store, history, frame, failed_at, schedVars, cmdVars,
                   fetchVars, auxVars, cleanup, closed, life, pending, procs>>

\* A minute passes
OverlapTick ==
    /\ now < MaxOverlapTime
    /\ now' = now + 1
    /\ UNCHANGED <<db, store, history, frame, failed_at, schedVars, cmdVars,
                   fetchVars, auxVars, lifeVars>>

NextOverlap ==
    \/ OverlapStart \/ OverlapTrigger \/ OverlapTick
    \/ \E a \in Activations :
          OverlapProcess(a) \/ OverlapReturned(a) \/ OverlapEnd(a)

SpecOverlap == InitOverlap /\ [][NextOverlap]_vars

\* C37: the initial check and the job never await process_source for the
\* same source at the same time.
C37_OneCallPerSource ==
    \A a, b \in Activations :
        (a # b /\ runs.act[a].pc = "call" /\ runs.act[b].pc = "call")
            => runs.act[a].cur[1].id # runs.act[b].cur[1].id

----------------------------------------------------------------------------
(* Concurrent activations of process_source on different sources, with     *)
(* _process_entry taken one await at a time: the aexists query, the        *)
(* fetch, the save.  The Content table is a sequence of rows, so that two  *)
(* rows of one URL can be told apart from one.                             *)
(*   procs.rows      the rows of the Content table, in insertion order     *)
(*   procs.fr[p]     the frame of activation p                             *)
(*   procs.step[p]   where its _process_entry is: "exists", "fetch",       *)
(*                   "save"                                                *)
(*   procs.got[p]    the result fetch_content returned to it               *)
(*   procs.lost[p]   the saves of p the table refused                      *)

NumProcs == 2
MaxProcEntries == 2

Procs == 1..NumProcs

\* What fetch_content returns: the result of a strategy that succeeded, or
\* the result it builds when every strategy failed
EntryResults ==
    {[content |-> TRUE, quality |-> "FULL"],
     [content |-> TRUE, quality |-> "PARTIAL"],
     [content |-> FALSE, quality |-> "EMPTY"]}

\* The INSERT of a table without the unique index on url
content_save_not_unique(rows, row) == [ok |-> TRUE, rows |-> Append(rows, row)]

\* content.asave(): the INSERT, which the unique index on url refuses with
\* IntegrityError when a row of that URL exists
content_save(rows, row) ==
    IF \E k \in 1..Len(rows) : rows[k].url = row.url
    THEN [ok |-> FALSE, rows |-> rows]
    ELSE [ok |-> TRUE, rows |-> Append(rows, row)]

\* _process_entry returned None
EntryNone(did_fetch) == [content |-> None, fetched |-> did_fetch]

InitEntries ==
    /\ now = 0
    /\ db = [s \in Procs |-> NewSource(s)]
    /\ store = {}
    /\ history = <<>>
    /\ frame = NewFrame(NewSource(1))
    /\ failed_at = [s \in Procs |-> None]
    /\ InitSchedOff
    /\ InitCmdOff
    /\ InitFetchOff
    /\ penalty = NoPenalty
    /\ limiter = LimiterOff
    /\ cleanup = [pc |-> "off"]
    /\ closed = FALSE
    /\ life = [pc |-> "off"]
    /\ pending = [pc |-> "off"]
    /\ runs = [pc |-> "off"]
    /\ \E feeds \in [Procs -> SeqsUpTo(Urls, MaxProcEntries)] :
          procs = [rows |-> <<>>,
                   fr |-> [p \in Procs |->
                             ps_feed(ps_call(NewFrame(NewSource(p)), 0), 0,
                                     [ok |-> TRUE, raises |-> FALSE,
                                      entries |-> feeds[p]])],
                   step |-> [p \in Procs |-> "exists"],
                   got |-> [p \in Procs |-> None],
                   lost |-> [p \in Procs |-> 0]]

\* Content.objects.filter(url=entry.url).aexists() returns
EntryExists(p) ==
    /\ procs.fr[p].pc = "entries"
    /\ procs.step[p] = "exists"
    /\ LET url == procs.fr[p].entries[procs.fr[p].i]
       IN  procs' = IF \E k \in 1..Len(procs.rows) : procs.rows[k].url = url
                    THEN [procs EXCEPT !.fr[p] = ps_entry(@, now, EntryNone(FALSE))]
                    ELSE [procs EXCEPT !.step[p] = "fetch"]
    /\ UNCHANGED <<now, db, store, history, frame, failed_at, schedVars, cmdVars,
                   fetchVars, auxVars, cleanup, closed, life, pending, runs>>

\* fetcher.fetch_content(entry.url) returns
EntryFetched(p) ==
    /\ procs.fr[p].pc = "entries"
    /\ procs.step[p] = "fetch"
    /\ \E r \in EntryResults :
          procs' = IF ~success(r) \/ r.quality \in {"EMPTY", "BLOCKED"}
                   THEN [procs EXCEPT !.fr[p] = ps_entry(@, now, EntryNone(TRUE)),
                                      !.step[p] = "exists"]
                   ELSE [procs EXCEPT !.step[p] = "save", !.got[p] = Some(r)]
    /\ UNCHANGED <<now, db, store, history, frame, failed_at, schedVars, cmdVars,
                   fetchVars, auxVars, cleanup, closed, life, pending, runs>>

\* content.asave() returns or raises; the exception is caught in
\* _process_entry, which returns None
EntrySaved(p) ==
    /\ procs.fr[p].pc = "entries"
    /\ procs.step[p] = "save"
    /\ LET row == [url |-> procs.fr[p].entries[procs.fr[p].i], source |-> p,
                   raw_content |-> procs.got[p][1].content,
                   fetch_quality |-> procs.got[p][1].quality]
           ins == content_save(procs.rows, row)
       IN  procs' = IF ins.ok
                    THEN [procs EXCEPT
                            !.rows = ins.rows,
                            !.fr[p] = ps_entry(@, now, [content |-> Some(row),
                                                        fetched |-> TRUE]),
                            !.step[p] = "exists", !.got[p] = None]
                    ELSE [procs EXCEPT
                            !.fr[p] = ps_entry(@, now, EntryNone(TRUE)),
                            !.lost[p] = @ + 1,
                            !.step[p] = "exists", !.got[p] = None]
    /\ UNCHANGED <<now, db, store, history, frame, failed_at, schedVars, cmdVars,
                   fetchVars, auxVars, cleanup, closed, life, pending, runs>>

\* source.save() returns, and process_source with it
EntriesSourceSaved(p) ==
    /\ procs.fr[p].pc = "saving"
    /\ db' = [db EXCEPT ![p] = procs.fr[p].obj]
    /\ procs' = [procs EXCEPT !.fr[p] = ps_saved(@)]
    /\ UNCHANGED <<now, store, history, frame, failed_at, schedVars, cmdVars,
                   fetchVars, auxVars, cleanup, closed, life, pending, runs>>

NextEntries ==
    \E p \in Procs :
        EntryExists(p) \/ EntryFetched(p) \/ EntrySaved(p) \/ EntriesSourceSaved(p)

SpecEntries == InitEntries /\ [][NextEntries]_vars

\* C38: the Content table never holds two rows of one URL; an attempt that
\* loses the race for a URL creates no row, is booked as a failed attempt,
\* and its activation goes on: every row is in the new_content of exactly
\* the activation that inserted it, and an activation that has returned
\* has attempted every entry of its feed.
C38_NoTwoRowsWithOneUrl ==
    /\ \A j, k \in 1..Len(procs.rows) :
          j # k => procs.rows[j].url # procs.rows[k].url
    /\ \A p \in Procs :
          LET fr == procs.fr[p]
          IN  /\ fr.pc # "raised"
              /\ fr.result.new_content =
                    SelectSeq(procs.rows, LAMBDA row : row.source = p)
              /\ procs.lost[p] <= fr.failed_attempts
              /\ fr.pc = "done" => fr.total_attempts = Len(fr.entries)

\* Both activations fetched the same URL at the same time; one lost the
\* save, went on, and both have returned.  And a feed listed a stored URL.
C38_Witness ==
    /\ \A p \in Procs : procs.fr[p].pc = "done"
    /\ \E p \in Procs : procs.lost[p] > 0 /\ Len(procs.fr[p].entries) = 2
    /\ \E p \in Procs : procs.fr[p].call.stored # {}

----------------------------------------------------------------------------
(* Claims about the records and the counts of one process_source call,     *)
(* checked under Spec                                                      *)

\* C39: every record process_source created has its content and a fetch
\* quality of FULL or PARTIAL; the records created and the failures booked
\* add up to the entries attempted, of which there are never more than
\* processed_count; and once the loop is over fetch_failures is the number
\* of failures booked.
C39_RecordsComeFromSuccesses ==
    /\ \A k \in 1..Len(frame.result.new_content) :
          /\ frame.result.new_content[k].raw_content
          /\ frame.result.new_content[k].fetch_quality \in {"FULL", "PARTIAL"}
    /\ Len(frame.result.new_content) + frame.failed_attempts = frame.total_attempts
    /\ frame.total_attempts = Len(frame.call.attempts)
    /\ frame.total_attempts <= frame.result.processed_count
    /\ frame.pc \in {"saving", "done", "raised"} =>
          frame.result.fetch_failures = frame.failed_attempts

\* A call that returned with a record of PARTIAL quality and with a
\* failure booked
C39_Witness ==
    /\ Returned
    /\ frame.result.fetch_failures > 0
    /\ \E k \in 1..Len(frame.result.new_content) :
          frame.result.new_content[k].fetch_quality = "PARTIAL"

====
